---- MODULE Spec2Model ----
(***************************************************************************)
(* Model of the oauth-orchestrator engine (Orchestrator.ts, latest         *)
(* revision) running against the in-memory handlers of                     *)
(* TestOrchestratorHandlers.ts.                                            *)
(*                                                                         *)
(* Every "await" of a handler is a suspension point: one action of the     *)
(* model is the code that runs between two suspension points of one call,  *)
(* i.e. the synchronous gates that follow the previous await and the body  *)
(* of the next handler (the test handlers contain no await of their own).  *)
(*                                                                         *)
(* Strings that the code splits or searches (scopes) are sequences of      *)
(* one-character strings.  Token values are pairs <<prefix, n>> standing   *)
(* for prefix + n ("access1", "refresh2"); <<"oops",0>> and                *)
(* <<"invalid",0>> are the literal strings "oops" and "invalid".           *)
(* Error messages are kept up to their interpolated value.                 *)
(***************************************************************************)
EXTENDS Integers, Sequences, FiniteSets, TLC

\* ------------------------------------------------------------------ bounds
MaxTokens == 2      \* access tokens created in a run
MaxTicks == 1       \* clock advances in a run
MaxFaults == 1      \* storage failures injected into the handlers
MaxLen == 3        \* characters of a scope string given to the scope matcher

\* The two concurrent callers of the engine.
Procs == {1, 2}

\* --------------------------------------------------------------- constants
PASSWORD_GRANT_TYPE == "password"
REFRESH_GRANT_TYPE == "refresh_token"
TOKEN_TYPE == "Bearer"
DefaultAccessTokenLifetime == 86400
DefaultRefreshTokenLifetime == 604800
DefaultIssueRefreshToken == TRUE

Undefined == "undefined"

\* ------------------------------------------------------------------ errors
\* An Error object: its class, the OAuth code and status an OAuthError
\* carries, its message, and the Error it wraps (class and message).
NoInner == [kind |-> Undefined, message |-> ""]

RawError(message) ==
    [kind |-> "Error", error |-> Undefined, status |-> 0,
     message |-> message, inner |-> NoInner]

IsOAuthError(e) ==
    e.kind \in {"InvalidGrantError", "InvalidRequestError", "InvalidScopeError",
                "InvalidTokenError", "ServerError", "UnsupportedGrantTypeError"}

\* OAuthError constructor: source is a string message or an Error to wrap.
\* Here source is a record; a string source is [kind |-> "string", message].
StringSource(message) == [kind |-> "string", message |-> message]

OAuthErrorBase(kind, code, status, source) ==
    [kind |-> kind, error |-> code, status |-> status,
     message |-> source.message,
     inner |-> IF source.kind = "string" THEN NoInner
               ELSE [kind |-> source.kind, message |-> source.message]]

InvalidGrantStatus == 401
InvalidRequestStatus == 400
InvalidScopeStatus == 403
InvalidTokenStatus == 401
ServerErrorStatus == 500
UnsupportedGrantTypeStatus == 400

InvalidGrantError_BadRequest(source) ==
    OAuthErrorBase("InvalidGrantError", "invalid_grant", InvalidRequestStatus, source)
InvalidGrantError(source) ==
    OAuthErrorBase("InvalidGrantError", "invalid_grant", InvalidGrantStatus, source)
InvalidRequestError(source) ==
    OAuthErrorBase("InvalidRequestError", "invalid_request", InvalidRequestStatus, source)
InvalidScopeError_BadRequest(source) ==
    OAuthErrorBase("InvalidScopeError", "invalid_scope", InvalidRequestStatus, source)
InvalidScopeError(source) ==
    OAuthErrorBase("InvalidScopeError", "invalid_scope", InvalidScopeStatus, source)
\* A wrapper that lets an error that is already an OAuthError pass unchanged.
InvalidTokenError_PassThrough(source) ==
    IF IsOAuthError(source) THEN source
    ELSE OAuthErrorBase("InvalidTokenError", "invalid_token", InvalidTokenStatus, source)

InvalidTokenError_BadRequest(source) ==
    OAuthErrorBase("InvalidTokenError", "invalid_token", InvalidRequestStatus, source)
InvalidTokenError(source) ==
    OAuthErrorBase("InvalidTokenError", "invalid_token", InvalidTokenStatus, source)
ServerError(source) ==
    OAuthErrorBase("ServerError", "server_error", ServerErrorStatus, source)
UnsupportedGrantTypeError(source) ==
    OAuthErrorBase("UnsupportedGrantTypeError", "unsupported_grant_type",
                   UnsupportedGrantTypeStatus, source)

\* A catch that reports every failure as a server error.
OuterCatch_AlwaysServerError(e) == ServerError(e)

\* The outer catch of authorize/password/refresh: an OAuthError is rethrown,
\* anything else becomes a ServerError.
OuterCatch(e) == IF IsOAuthError(e) THEN e ELSE ServerError(e)

\* ------------------------------------------------------------------ scopes
\* JavaScript String.prototype.split(" ") on a non-empty string.
RECURSIVE SplitFrom(_, _, _)
SplitFrom(s, i, cur) ==
    IF i > Len(s) THEN <<cur>>
    ELSE IF s[i] = " " THEN <<cur>> \o SplitFrom(s, i + 1, <<>>)
    ELSE SplitFrom(s, i + 1, Append(cur, s[i]))

Split(s) == SplitFrom(s, 1, <<>>)

\* JavaScript String.prototype.includes: sub occurs in s as a substring.
Includes(s, sub) ==
    \E i \in 0..(Len(s) - Len(sub)) :
        \A j \in 1..Len(sub) : s[i + j] = sub[j]

Elems(seq) == {seq[i] : i \in 1..Len(seq)}

\* A matcher whose superuser test looks for the superuser scope among the
\* tokens of allowed.
includedScopeWith_TokenTest(superuser, required, allowed) ==
    IF superuser # <<>> /\ allowed # <<>> /\ superuser \in Elems(Split(allowed))
    THEN TRUE
    ELSE IF required = <<>> THEN TRUE
    ELSE LET requiredScopes == Split(required)
             allowedScopes == IF allowed # <<>> THEN Split(allowed) ELSE <<>>
         IN IF Len(allowedScopes) = 0 THEN FALSE
            ELSE \A r \in Elems(requiredScopes) :
                     \E a \in Elems(allowedScopes) : r = a

\* A matcher without the superuser test.
includedScopeWith_NoBypass(superuser, required, allowed) ==
    IF required = <<>> THEN TRUE
    ELSE LET requiredScopes == Split(required)
             allowedScopes == IF allowed # <<>> THEN Split(allowed) ELSE <<>>
         IN IF Len(allowedScopes) = 0 THEN FALSE
            ELSE \A r \in Elems(requiredScopes) :
                     \E a \in Elems(allowedScopes) : r = a

\* A matcher that compares the two lists token by token, in their order.
includedScopeWith_InOrder(superuser, required, allowed) ==
    IF superuser # <<>> /\ Includes(allowed, superuser) THEN TRUE
    ELSE IF required = <<>> THEN TRUE
    ELSE LET requiredScopes == Split(required)
             allowedScopes == IF allowed # <<>> THEN Split(allowed) ELSE <<>>
         IN /\ Len(requiredScopes) <= Len(allowedScopes)
            /\ \A i \in 1..Len(requiredScopes) : requiredScopes[i] = allowedScopes[i]

\* A matcher without the two tests for an empty required scope: "" is split
\* like any other string, into one empty token.
includedScopeWith_SplitsEmpty(superuser, required, allowed) ==
    IF superuser # <<>> /\ Includes(allowed, superuser) THEN TRUE
    ELSE LET requiredScopes == Split(required)
             allowedScopes == IF allowed # <<>> THEN Split(allowed) ELSE <<>>
         IN IF Len(allowedScopes) = 0 THEN FALSE
            ELSE \A r \in Elems(requiredScopes) :
                     \E a \in Elems(allowedScopes) : r = a

\* Orchestrator.includedScope with the module constant SUPERUSER_SCOPE passed
\* in (<<>> stands for an unset or empty environment variable: both falsy).
includedScopeWith(superuser, required, allowed) ==
    IF superuser # <<>> /\ Includes(allowed, superuser) THEN TRUE
    ELSE IF required = <<>> THEN TRUE
    ELSE LET requiredScopes == IF required # <<>> THEN Split(required) ELSE <<>>
             allowedScopes == IF allowed # <<>> THEN Split(allowed) ELSE <<>>
         IN IF Len(requiredScopes) = 0 THEN TRUE
            ELSE IF Len(allowedScopes) = 0 THEN FALSE
            ELSE \A r \in Elems(requiredScopes) :
                     \E a \in Elems(allowedScopes) : r = a


\* ------------------------------------------------------------- test store
Oops == <<"oops", 0>>
Invalid == <<"invalid", 0>>
NoTokenValue == <<"none", 0>>

NoAccessToken == [expires |-> 0, scope |-> <<>>, token |-> NoTokenValue, userId |-> ""]
NoRefreshToken == [accessToken |-> NoTokenValue, expires |-> 0, token |-> NoTokenValue, userId |-> ""]
NoUser == [scope |-> <<>>, userId |-> ""]
NoError == [kind |-> "none", error |-> Undefined, status |-> 0, message |-> "", inner |-> NoInner]

\* credentialMap as populated for the tests, keyed by username; scopes are
\* shortened ("a" for "all", "f" for "flintstones", "rs" for "rubbles").
credentialMap ==
    [username \in {"fred", "barney"} |->
        IF username = "fred"
        THEN [password |-> "flintstone", scope |-> <<"a", " ", "f">>,
              userId |-> "fred", username |-> "fred"]
        ELSE [password |-> "rubble", scope |-> <<"r", "s", " ", "a">>,
              userId |-> "barney", username |-> "barney"]]

VARIABLES
    accessTokenMap,         \* token value -> AccessToken
    refreshTokenMap,        \* token value -> RefreshToken
    nextAccessTokenId,
    nextRefreshTokenId,
    now,                    \* the clock, in milliseconds
    ticks,                  \* clock advances so far
    faults,                 \* storage failures injected so far
    accessTokenLifetime,    \* Orchestrator fields, fixed by the constructor
    issueRefreshToken,
    refreshTokenLifetime,
    SUPERUSER_SCOPE,        \* process.env.SUPERUSER_SCOPE, <<>> when unset
    concurrency,            \* how many callers use the engine at a time
    wide,                   \* whether the run draws its requests from the wide sets
    pc,                     \* per caller: where its current call is suspended
    frame,                  \* per caller: the request and the locals of the call
    calls,                  \* per caller: the handler calls of the current call
    last                    \* the call that ended in the step just taken, if any:
                            \* request, locals, handler calls, result

store == <<accessTokenMap, refreshTokenMap, nextAccessTokenId, nextRefreshTokenId>>
config == <<accessTokenLifetime, issueRefreshToken, refreshTokenLifetime, SUPERUSER_SCOPE,
            concurrency, wide>>
vars == <<accessTokenMap, refreshTokenMap, nextAccessTokenId, nextRefreshTokenId,
          now, ticks, faults, accessTokenLifetime, issueRefreshToken,
          refreshTokenLifetime, SUPERUSER_SCOPE, concurrency, wide, pc, frame, calls, last>>

\* Result of a handler: ok with a value, or not ok with the Error thrown.
Ok(value) == [ok |-> TRUE, value |-> value, error |-> NoError]
Thrown(error, novalue) == [ok |-> FALSE, value |-> novalue, error |-> error]

authenticateUser(username, password) ==
    IF username \in DOMAIN credentialMap
    THEN IF password = credentialMap[username].password
         THEN Ok([scope |-> credentialMap[username].scope,
                  userId |-> credentialMap[username].userId])
         ELSE Thrown(RawError("credentials: Invalid credentials"), NoUser)
    ELSE Thrown(RawError("credentials: Invalid credentials"), NoUser)

\* A store that numbers a new access token by the count of those it holds.
createAccessToken_CountsStored(expires, scope, userId, storeFails) ==
    IF storeFails
    THEN Thrown(RawError("createAccessToken: storage failure"), NoAccessToken)
    ELSE Ok([expires |-> expires, scope |-> scope,
             token |-> <<"access", Cardinality(DOMAIN accessTokenMap) + 1>>,
             userId |-> userId])

\* createAccessToken: the AccessToken stored under "access" + (++nextAccessTokenId).
\* storeFails is the contract's "throw an Error if the token could not be saved".
createAccessToken(expires, scope, userId, storeFails) ==
    IF storeFails
    THEN Thrown(RawError("createAccessToken: storage failure"), NoAccessToken)
    ELSE Ok([expires |-> expires, scope |-> scope,
             token |-> <<"access", nextAccessTokenId + 1>>, userId |-> userId])

\* A store that records a refresh token without its owner.
createRefreshToken_DropsUserId(accessToken, expires, userId, storeFails) ==
    IF storeFails
    THEN Thrown(RawError("createRefreshToken: storage failure"), NoRefreshToken)
    ELSE Ok([accessToken |-> accessToken, expires |-> expires,
             token |-> <<"refresh", nextRefreshTokenId + 1>>, userId |-> ""])

createRefreshToken(accessToken, expires, userId, storeFails) ==
    IF storeFails
    THEN Thrown(RawError("createRefreshToken: storage failure"), NoRefreshToken)
    ELSE Ok([accessToken |-> accessToken, expires |-> expires,
             token |-> <<"refresh", nextRefreshTokenId + 1>>, userId |-> userId])

retrieveAccessToken(token) ==
    IF token = Oops
    THEN Thrown(RawError("retrieveAccessToken: oops"), NoAccessToken)
    ELSE IF token \in DOMAIN accessTokenMap
    THEN Ok(accessTokenMap[token])
    ELSE Thrown(RawError("retrieveAccessToken: Missing token"), NoAccessToken)

retrieveRefreshToken(token) ==
    IF token = Oops
    THEN Thrown(RawError("retrieveRefreshToken: oops"), NoRefreshToken)
    ELSE IF token \in DOMAIN refreshTokenMap
    THEN Ok(refreshTokenMap[token])
    ELSE Thrown(RawError("retrieveRefreshToken: Missing token"), NoRefreshToken)

\* A store whose revokeAccessToken succeeds for a token that is gone.
revokeAccessToken_Idempotent(token) ==
    Ok([accessTokenMap |->
            [t \in DOMAIN accessTokenMap \ {token} |-> accessTokenMap[t]],
        refreshTokenMap |->
            [t \in {r \in DOMAIN refreshTokenMap :
                       refreshTokenMap[r].accessToken # token}
               |-> refreshTokenMap[t]]])

\* A store that deletes, with the access token, every refresh token of its user.
revokeAccessToken_CascadeByUser(token) ==
    IF token \in DOMAIN accessTokenMap
    THEN Ok([accessTokenMap |->
                 [t \in DOMAIN accessTokenMap \ {token} |-> accessTokenMap[t]],
             refreshTokenMap |->
                 [t \in {r \in DOMAIN refreshTokenMap :
                            refreshTokenMap[r].userId # accessTokenMap[token].userId}
                    |-> refreshTokenMap[t]]])
    ELSE Thrown(RawError("revokeAccessToken: Missing token"),
                [accessTokenMap |-> accessTokenMap, refreshTokenMap |-> refreshTokenMap])

\* A store that deletes the access token and keeps the refresh tokens issued
\* for it.
revokeAccessToken_NoCascade(token) ==
    IF token \in DOMAIN accessTokenMap
    THEN Ok([accessTokenMap |->
                 [t \in DOMAIN accessTokenMap \ {token} |-> accessTokenMap[t]],
             refreshTokenMap |-> refreshTokenMap])
    ELSE Thrown(RawError("revokeAccessToken: Missing token"),
                [accessTokenMap |-> accessTokenMap, refreshTokenMap |-> refreshTokenMap])

\* revokeAccessToken: the two maps after the call, or the Error thrown.
revokeAccessToken(token) ==
    IF token \in DOMAIN accessTokenMap
    THEN Ok([accessTokenMap |->
                 [t \in DOMAIN accessTokenMap \ {token} |-> accessTokenMap[t]],
             refreshTokenMap |->
                 [t \in {r \in DOMAIN refreshTokenMap :
                            refreshTokenMap[r].accessToken # token}
                    |-> refreshTokenMap[t]]])
    ELSE Thrown(RawError("revokeAccessToken: Missing token"),
                [accessTokenMap |-> accessTokenMap, refreshTokenMap |-> refreshTokenMap])


\* ------------------------------------------------------------ engine state
\* request.scope is optional: <<>> when absent, <<s>> when the string s is given.
Absent == <<>>
Present(s) == <<s>>
Truthy_Never(opt) == FALSE
Truthy(opt) == opt # <<>> /\ opt[1] # <<>>

NoResponse ==
    [access_token |-> NoTokenValue, expires_in |-> 0, refresh_token |-> NoTokenValue,
     scope |-> <<>>, token_type |-> ""]
NoResult == [status |-> "none", response |-> NoResponse, error |-> NoError]
Returned(response) == [status |-> "returned", response |-> response, error |-> NoError]
Threw(error) == [status |-> "threw", response |-> NoResponse, error |-> error]

EmptyFrame ==
    [op |-> "none", grant_type |-> "", token |-> NoTokenValue, scope |-> Absent,
     required |-> <<>>, user |-> NoUser, grantedScope |-> <<>>, thrown |-> NoError,
     oldRefreshToken |-> NoRefreshToken, oldAccessToken |-> NoAccessToken,
     newAccessToken |-> NoAccessToken, newRefreshToken |-> NoRefreshToken]

Call(cap, ok) == [cap |-> cap, ok |-> ok]

\* Tokens that never expire.
Expired_Never(expires) == now < 0

\* new Date() >= token.expires
Expired_AtOrAfter(expires) == now >= expires

\* new Date() > token.expires
Expired(expires) == now > expires

\* An offset taken as milliseconds.
calculateExpires_Milliseconds(offset) == now + offset

\* calculateExpires(offset): Date.now() + offset * 1000
calculateExpires(offset) == now + (offset * 1000)

\* A matcher that grants whatever is asked of a user that holds a permission.
includedScope_AnyAllowed(required, allowed) == allowed # <<>>

\* A call that passes the required scope where the allowed scope belongs.
includedScope_IgnoresAllowed(required, allowed) ==
    includedScopeWith(SUPERUSER_SCOPE, required, required)

includedScope(required, allowed) == includedScopeWith(SUPERUSER_SCOPE, required, allowed)

\* A response that reports the lifetime in milliseconds, as expires is computed.
ComposeResponse_Milliseconds(accessToken, refreshToken, scope) ==
    [access_token |-> accessToken.token,
     expires_in |-> accessTokenLifetime * 1000,
     refresh_token |-> IF refreshToken # NoRefreshToken THEN refreshToken.token
                       ELSE NoTokenValue,
     scope |-> scope,
     token_type |-> TOKEN_TYPE]

\* The TokenResponse both flows compose; refreshToken is NoRefreshToken when
\* the local was never assigned, which gives refresh_token undefined.
ComposeResponse(accessToken, refreshToken, scope) ==
    [access_token |-> accessToken.token,
     expires_in |-> accessTokenLifetime,
     refresh_token |-> IF refreshToken # NoRefreshToken THEN refreshToken.token
                       ELSE NoTokenValue,
     scope |-> scope,
     token_type |-> TOKEN_TYPE]

\* Order of the suspension points of the two flows: the step that follows a
\* step that succeeded ("done" composes and returns the response).
\* A password flow that creates a refresh token whatever issueRefreshToken says.
PasswordNext_AlwaysRefreshToken(at) ==
    CASE at = "password.authenticateUser" -> "password.createAccessToken"
      [] at = "password.createAccessToken" -> "password.createRefreshToken"
      [] OTHER -> "done"

PasswordNext(at) ==
    CASE at = "password.authenticateUser" -> "password.createAccessToken"
      [] at = "password.createAccessToken" ->
            IF issueRefreshToken THEN "password.createRefreshToken" ELSE "done"
      [] OTHER -> "done"

\* A refresh that creates a refresh token whatever issueRefreshToken says.
RefreshNext_AlwaysRefreshToken(at) ==
    CASE at = "refresh.retrieveRefreshToken" -> "refresh.retrieveAccessToken"
      [] at = "refresh.retrieveAccessToken" -> "refresh.createAccessToken"
      [] at = "refresh.createAccessToken" -> "refresh.createRefreshToken"
      [] at = "refresh.createRefreshToken" -> "refresh.revokeAccessToken"
      [] OTHER -> "done"

\* A refresh that waits for a lock nothing releases before it revokes the
\* old access token.
RefreshNext_WaitsForLock(at) ==
    CASE at = "refresh.retrieveRefreshToken" -> "refresh.retrieveAccessToken"
      [] at = "refresh.retrieveAccessToken" -> "refresh.createAccessToken"
      [] at = "refresh.createAccessToken" ->
            IF issueRefreshToken THEN "refresh.createRefreshToken"
            ELSE "refresh.lock"
      [] at = "refresh.createRefreshToken" -> "refresh.lock"
      [] OTHER -> "done"

\* A refresh that creates the new refresh token before the new access token.
RefreshNext_RefreshTokenFirst(at) ==
    CASE at = "refresh.retrieveRefreshToken" -> "refresh.retrieveAccessToken"
      [] at = "refresh.retrieveAccessToken" ->
            IF issueRefreshToken THEN "refresh.createRefreshToken"
            ELSE "refresh.createAccessToken"
      [] at = "refresh.createRefreshToken" -> "refresh.createAccessToken"
      [] at = "refresh.createAccessToken" -> "refresh.revokeAccessToken"
      [] OTHER -> "done"

\* A refresh that revokes the old access token before it creates the new one.
RefreshNext_RevokeFirst(at) ==
    CASE at = "refresh.retrieveRefreshToken" -> "refresh.retrieveAccessToken"
      [] at = "refresh.retrieveAccessToken" -> "refresh.revokeAccessToken"
      [] at = "refresh.revokeAccessToken" -> "refresh.createAccessToken"
      [] at = "refresh.createAccessToken" ->
            IF issueRefreshToken THEN "refresh.createRefreshToken" ELSE "done"
      [] OTHER -> "done"

\* A refresh that returns the new tokens without revoking the old access token.
RefreshNext_NoRevoke(at) ==
    CASE at = "refresh.retrieveRefreshToken" -> "refresh.retrieveAccessToken"
      [] at = "refresh.retrieveAccessToken" -> "refresh.createAccessToken"
      [] at = "refresh.createAccessToken" ->
            IF issueRefreshToken THEN "refresh.createRefreshToken" ELSE "done"
      [] OTHER -> "done"

RefreshNext(at) ==
    CASE at = "refresh.retrieveRefreshToken" -> "refresh.retrieveAccessToken"
      [] at = "refresh.retrieveAccessToken" -> "refresh.createAccessToken"
      [] at = "refresh.createAccessToken" ->
            IF issueRefreshToken THEN "refresh.createRefreshToken"
            ELSE "refresh.revokeAccessToken"
      [] at = "refresh.createRefreshToken" -> "refresh.revokeAccessToken"
      [] OTHER -> "done"

\* The injected storage failures left to the create handlers.
FaultChoices == IF faults < MaxFaults THEN {FALSE, TRUE} ELSE {FALSE}

\* An injected failure uses up one of the failures of the run.
Inject(storeFails) == faults' = IF storeFails THEN faults + 1 ELSE faults

Put(map, rec) == (rec.token :> rec) @@ map

\* ------------------------------------------------------------------ inputs
\* Requests are drawn from the token values issued so far and the two
\* literals of the tests, and from scopes over the users' permissions.  A
\* run with narrow requests has those of one user asking for its full scope.
ScopeInputs ==
    IF wide THEN {Absent, Present(<<>>), Present(<<"a">>), Present(<<"f">>)}
    ELSE {Absent}
RequiredInputs ==
    IF wide THEN {<<>>, <<"a">>, <<"f">>}
    ELSE {<<"a">>, <<"r", "s">>, credentialMap["fred"].scope}
CredentialInputs ==
    IF wide THEN {<<"fred", "flintstone">>, <<"barney", "rubble">>}
    ELSE {<<"fred", "flintstone">>}
BadCredentialInputs == {<<"fred", "invalid">>, <<"invalid", "rubble">>}
OtherGrantTypeInputs == IF wide THEN {"authorization_code", ""} ELSE {"authorization_code"}
AccessTokenInputs == {<<"access", n>> : n \in 1..nextAccessTokenId} \cup {Oops, Invalid}
RefreshTokenInputs == {<<"refresh", n>> : n \in 1..nextRefreshTokenId} \cup {Oops, Invalid}


\* ----------------------------------------------------------------- actions
\* An engine that admits a call only while no other call is in progress.
CanStart_Serialised(p) ==
    /\ \A q \in Procs : pc[q] = "idle"
    /\ p = 1

\* A new call runs as the first caller that is free (the callers are
\* interchangeable); the engine holds no lock that would make it wait.
CanStart(p) ==
    /\ pc[p] = "idle"
    /\ p <= concurrency
    /\ \A q \in Procs : q < p => pc[q] # "idle"

\* createAccessToken is called only while the run may still create a token
\* (a flow that reaches it later stays suspended).
InitialTokens == IF concurrency = 1 THEN 0 ELSE 1
CanCreate == nextAccessTokenId < MaxTokens + InitialTokens

NoLast == [caller |-> 0, frame |-> EmptyFrame, result |-> NoResult, calls |-> <<>>]

\* A call ends: its caller receives the response or the error and is free again.
Finish(p, f, res, log) ==
    /\ pc' = [pc EXCEPT ![p] = "idle"]
    /\ frame' = [frame EXCEPT ![p] = EmptyFrame]
    /\ calls' = [calls EXCEPT ![p] = <<>>]
    /\ last' = [caller |-> p, frame |-> f, result |-> res, calls |-> log]

\* A call is suspended at the await of the handler it has just called.
Suspend(p, at, f, log) ==
    /\ pc' = [pc EXCEPT ![p] = at]
    /\ frame' = [frame EXCEPT ![p] = f]
    /\ calls' = [calls EXCEPT ![p] = log]
    /\ last' = NoLast

\* The handlers are supplied by the application: besides the failures of the
\* test handlers, a retrieve or a revoke handler may fail for a cause of the
\* store, with a plain Error or with an OAuthError of the library.
HandlerFailures ==
    IF faults < MaxFaults THEN {"none", "Error", "OAuthError"} ELSE {"none"}

HandlerFailure(failure) ==
    IF failure = "OAuthError"
    THEN ServerError(StringSource("store: storage failure"))
    ELSE RawError("store: storage failure")

\* authenticateUser and retrieveAccessToken of the tests throw a plain Error
\* by themselves, for credentials that do not match and for the token "oops".
OAuthFailures == HandlerFailures \ {"Error"}

\* What the await of a handler gives when the store fails under it.
Failing(r, failure, novalue) ==
    IF failure = "none" THEN r ELSE Thrown(HandlerFailure(failure), novalue)

\* An authorize that tests the scope before the expiry.
AuthorizeOutcome_ScopeFirst(r, required) ==
    IF ~r.ok THEN Threw(OuterCatch(InvalidTokenError(r.error)))
    ELSE IF ~includedScope(required, r.value.scope)
    THEN Threw(OuterCatch(InvalidScopeError(StringSource(
             "scope: Required scope not authorized for this access token"))))
    ELSE IF Expired(r.value.expires)
    THEN Threw(OuterCatch(InvalidTokenError(StringSource("token: Expired access token"))))
    ELSE Returned(NoResponse)

\* authorize(token, required): what the call throws or returns, r being
\* what the await of retrieveAccessToken(token) gave.
AuthorizeOutcome(r, required) ==
    IF ~r.ok THEN Threw(OuterCatch(InvalidTokenError(r.error)))
    ELSE IF Expired(r.value.expires)
    THEN Threw(OuterCatch(InvalidTokenError(StringSource("token: Expired access token"))))
    ELSE IF ~includedScope(required, r.value.scope)
    THEN Threw(OuterCatch(InvalidScopeError(StringSource(
             "scope: Required scope not authorized for this access token"))))
    ELSE Returned(NoResponse)

\* An authorize that consumes the access token it has accepted.
Authorize_Consuming(p) ==
    \E token \in AccessTokenInputs, required \in RequiredInputs,
       failure \in OAuthFailures :
        LET r == Failing(retrieveAccessToken(token), failure, NoAccessToken) IN
        /\ CanStart(p)
        /\ Inject(failure # "none")
        /\ Finish(p, [EmptyFrame EXCEPT !.op = "authorize", !.token = token,
                                        !.required = required, !.thrown = r.error],
                  AuthorizeOutcome(r, required),
                  <<Call("retrieveAccessToken", r.ok)>>)
        /\ accessTokenMap' =
              IF AuthorizeOutcome(r, required).status = "returned"
              THEN [t \in DOMAIN accessTokenMap \ {token} |-> accessTokenMap[t]]
              ELSE accessTokenMap
        /\ UNCHANGED <<refreshTokenMap, nextAccessTokenId, nextRefreshTokenId,
                       config, now, ticks>>

Authorize(p) ==
    \E token \in AccessTokenInputs, required \in RequiredInputs,
       failure \in OAuthFailures :
        LET r == Failing(retrieveAccessToken(token), failure, NoAccessToken) IN
        /\ CanStart(p)
        /\ Inject(failure # "none")
        /\ Finish(p, [EmptyFrame EXCEPT !.op = "authorize", !.token = token,
                                        !.required = required, !.thrown = r.error],
                  AuthorizeOutcome(r, required),
                  <<Call("retrieveAccessToken", r.ok)>>)
        /\ UNCHANGED <<store, config, now, ticks>>

\* A revoke without its catch: the caller receives what the handler threw.
RevokeCatch_Rethrow(e) == e

\* A catch that wraps whatever the handler threw, as the first revision of
\* revoke did.
RevokeCatch_AlwaysWrap(e) == InvalidTokenError(e)

\* revoke(token): an OAuthError of the handler is rethrown, any other failure
\* becomes InvalidTokenError("token: Invalid access token").
RevokeCatch(e) ==
    IF IsOAuthError(e) THEN e
    ELSE InvalidTokenError(StringSource("token: Invalid access token"))

Revoke(p) ==
    \E token \in AccessTokenInputs, failure \in HandlerFailures :
        LET r == Failing(revokeAccessToken(token), failure,
                         [accessTokenMap |-> accessTokenMap,
                          refreshTokenMap |-> refreshTokenMap])
        IN
        /\ CanStart(p)
        /\ accessTokenMap' = r.value.accessTokenMap
        /\ refreshTokenMap' = r.value.refreshTokenMap
        /\ Inject(failure # "none")
        /\ Finish(p, [EmptyFrame EXCEPT !.op = "revoke", !.token = token,
                                        !.thrown = r.error],
                  IF r.ok THEN Returned(NoResponse) ELSE Threw(RevokeCatch(r.error)),
                  <<Call("revokeAccessToken", r.ok)>>)
        /\ UNCHANGED <<nextAccessTokenId, nextRefreshTokenId, config, now, ticks>>

\* password(), up to the await of authenticateUser.
PasswordAuthenticateUser(p, request) ==
    \E failure \in OAuthFailures :
    LET r == Failing(authenticateUser(request.username, request.password),
                     failure, NoUser)
        f == [EmptyFrame EXCEPT !.op = "password", !.grant_type = request.grant_type,
                                !.scope = request.scope, !.user = r.value]
        log == <<Call("authenticateUser", r.ok)>>
    IN /\ IF r.ok
          THEN Suspend(p, PasswordNext("password.authenticateUser"), f, log)
          ELSE Finish(p, [f EXCEPT !.thrown = r.error],
                      Threw(OuterCatch(InvalidGrantError(r.error))), log)
       /\ Inject(failure # "none")
       /\ UNCHANGED <<store, config, now, ticks>>

\* refresh(), up to the await of retrieveRefreshToken.
RefreshRetrieveRefreshToken(p, request) ==
    LET r == retrieveRefreshToken(request.refresh_token)
        f == [EmptyFrame EXCEPT !.op = "refresh", !.grant_type = request.grant_type,
                                !.token = request.refresh_token,
                                !.oldRefreshToken = r.value]
        log == <<Call("retrieveRefreshToken", r.ok)>>
    IN /\ IF r.ok
          THEN Suspend(p, RefreshNext("refresh.retrieveRefreshToken"), f, log)
          ELSE Finish(p, [f EXCEPT !.thrown = r.error],
                      Threw(OuterCatch(InvalidTokenError(r.error))), log)
       /\ UNCHANGED <<store, config, now, ticks, faults>>

\* A switch without its default branch, where any other grant type runs the
\* refresh flow.
TokenUnsupported_AsRefresh(p, request) == RefreshRetrieveRefreshToken(p, request)

\* token(request), default branch of the switch.
TokenUnsupported(p, request) ==
    /\ Finish(p, [EmptyFrame EXCEPT !.op = "token", !.grant_type = request.grant_type],
              Threw(UnsupportedGrantTypeError(StringSource("grant_type: is not supported"))),
              <<>>)
    /\ UNCHANGED <<store, config, now, ticks, faults>>

\* PasswordTokenRequest, RefreshTokenRequest and requests of another grant
\* type; a field its type does not have is left at its empty value.
TokenRequests ==
    {[grant_type |-> PASSWORD_GRANT_TYPE, username |-> c[1], password |-> c[2],
      scope |-> s, refresh_token |-> NoTokenValue] :
        c \in CredentialInputs, s \in ScopeInputs}
    \cup {[grant_type |-> PASSWORD_GRANT_TYPE, username |-> c[1], password |-> c[2],
           scope |-> Absent, refresh_token |-> NoTokenValue] :
              c \in BadCredentialInputs}
    \cup {[grant_type |-> REFRESH_GRANT_TYPE, username |-> "", password |-> "",
           scope |-> Absent, refresh_token |-> t] : t \in RefreshTokenInputs}
    \cup {[grant_type |-> g, username |-> "", password |-> "",
           scope |-> Absent, refresh_token |-> NoTokenValue] :
              g \in OtherGrantTypeInputs}

\* token(request): the switch on request.grant_type.
Token(p) ==
    \E request \in TokenRequests :
        /\ CanStart(p)
        /\ CASE request.grant_type = PASSWORD_GRANT_TYPE ->
                    PasswordAuthenticateUser(p, request)
             [] request.grant_type = REFRESH_GRANT_TYPE ->
                    RefreshRetrieveRefreshToken(p, request)
             [] OTHER -> TokenUnsupported(p, request)


\* Effect of a create handler on the store.
StoreAccessToken(r) ==
    /\ accessTokenMap' = IF r.ok THEN Put(accessTokenMap, r.value) ELSE accessTokenMap
    /\ nextAccessTokenId' = IF r.ok THEN nextAccessTokenId + 1 ELSE nextAccessTokenId

StoreRefreshToken(r) ==
    /\ refreshTokenMap' = IF r.ok THEN Put(refreshTokenMap, r.value) ELSE refreshTokenMap
    /\ nextRefreshTokenId' = IF r.ok THEN nextRefreshTokenId + 1 ELSE nextRefreshTokenId

\* A step of a flow succeeded: suspend at the next handler, or return the response.
Advance(p, next, f, log) ==
    IF next = "done"
    THEN Finish(p, f, Returned(ComposeResponse(f.newAccessToken, f.newRefreshToken,
                                               IF f.op = "password" THEN f.grantedScope
                                               ELSE f.newAccessToken.scope)), log)
    ELSE Suspend(p, next, f, log)

\* password(), from the scope check to the await of createAccessToken.
PasswordCreateAccessToken(p) ==
    /\ pc[p] = "password.createAccessToken"
    /\ LET f == frame[p] IN
       IF Truthy(f.scope) /\ ~includedScope(f.scope[1], f.user.scope)
       THEN /\ Finish(p, f, Threw(OuterCatch(InvalidScopeError(StringSource(
                          "scope: Scope not allowed")))), calls[p])
            /\ UNCHANGED <<store, faults>>
       ELSE \E storeFails \in FaultChoices :
            CanCreate /\
            LET grantedScope == IF Truthy(f.scope) THEN f.scope[1] ELSE f.user.scope
                r == createAccessToken(calculateExpires(accessTokenLifetime),
                                       grantedScope, f.user.userId, storeFails)
                g == [f EXCEPT !.grantedScope = grantedScope, !.newAccessToken = r.value]
                log == Append(calls[p], Call("createAccessToken", r.ok))
            IN /\ StoreAccessToken(r)
               /\ Inject(storeFails)
               /\ UNCHANGED <<refreshTokenMap, nextRefreshTokenId>>
               /\ IF r.ok
                  THEN Advance(p, PasswordNext("password.createAccessToken"), g, log)
                  ELSE Finish(p, [g EXCEPT !.thrown = r.error],
                         Threw(OuterCatch(InvalidTokenError(r.error))), log)
    /\ UNCHANGED <<config, now, ticks>>

\* password(), the await of createRefreshToken and the response.
PasswordCreateRefreshToken(p) ==
    /\ pc[p] = "password.createRefreshToken"
    /\ \E storeFails \in FaultChoices :
       LET f == frame[p]
           r == createRefreshToken(f.newAccessToken.token,
                                   calculateExpires(refreshTokenLifetime),
                                   f.user.userId, storeFails)
           g == [f EXCEPT !.newRefreshToken = r.value]
           log == Append(calls[p], Call("createRefreshToken", r.ok))
       IN /\ StoreRefreshToken(r)
          /\ Inject(storeFails)
          /\ IF r.ok
             THEN Advance(p, PasswordNext("password.createRefreshToken"), g, log)
             ELSE Finish(p, [g EXCEPT !.thrown = r.error],
                         Threw(OuterCatch(InvalidTokenError(r.error))), log)
    /\ UNCHANGED <<accessTokenMap, nextAccessTokenId, config, now, ticks>>

\* A refresh that retrieves the old access token before it tests the expiry
\* of the refresh token.
RefreshRetrieveAccessToken_RetrieveFirst(p) ==
    /\ pc[p] = "refresh.retrieveAccessToken"
    /\ \E failure \in OAuthFailures :
       LET f == frame[p]
           r == Failing(retrieveAccessToken(f.oldRefreshToken.accessToken),
                        failure, NoAccessToken)
           g == [f EXCEPT !.oldAccessToken = r.value]
           log == Append(calls[p], Call("retrieveAccessToken", r.ok))
       IN /\ Inject(failure # "none")
          /\ IF ~r.ok
             THEN Finish(p, [g EXCEPT !.thrown = r.error],
                         Threw(OuterCatch(InvalidTokenError(r.error))), log)
             ELSE IF Expired(f.oldRefreshToken.expires)
             THEN Finish(p, g, Threw(OuterCatch(InvalidTokenError(StringSource(
                             "token: Expired refresh token")))), log)
             ELSE Advance(p, RefreshNext("refresh.retrieveAccessToken"), g, log)
    /\ UNCHANGED <<store, config, now, ticks>>

\* refresh(), from the expiry check to the await of retrieveAccessToken.
RefreshRetrieveAccessToken(p) ==
    /\ pc[p] = "refresh.retrieveAccessToken"
    /\ LET f == frame[p] IN
       IF Expired(f.oldRefreshToken.expires)
       THEN /\ Finish(p, f, Threw(OuterCatch(InvalidTokenError(StringSource(
                          "token: Expired refresh token")))), calls[p])
            /\ UNCHANGED faults
       ELSE \E failure \in OAuthFailures :
            LET r == Failing(retrieveAccessToken(f.oldRefreshToken.accessToken),
                             failure, NoAccessToken)
                g == [f EXCEPT !.oldAccessToken = r.value]
                log == Append(calls[p], Call("retrieveAccessToken", r.ok))
            IN /\ Inject(failure # "none")
               /\ IF r.ok
                  THEN Advance(p, RefreshNext("refresh.retrieveAccessToken"), g, log)
                  ELSE Finish(p, [g EXCEPT !.thrown = r.error],
                              Threw(OuterCatch(InvalidTokenError(r.error))), log)
    /\ UNCHANGED <<store, config, now, ticks>>

\* A refresh that looks the old access token up again before it creates the
\* new one, and gives up when it is gone.
RefreshCreateAccessToken_ChecksOld(p) ==
    /\ pc[p] = "refresh.createAccessToken"
    /\ IF frame[p].oldAccessToken.token \notin DOMAIN accessTokenMap
       THEN /\ Finish(p, frame[p], Threw(OuterCatch(InvalidTokenError(StringSource(
                          "token: Invalid access token")))), calls[p])
            /\ UNCHANGED <<store, faults>>
       ELSE /\ CanCreate
            /\ \E storeFails \in FaultChoices :
               LET f == frame[p]
                   r == createAccessToken(calculateExpires(accessTokenLifetime),
                                          f.oldAccessToken.scope,
                                          f.oldAccessToken.userId, storeFails)
                   g == [f EXCEPT !.newAccessToken = r.value]
                   log == Append(calls[p], Call("createAccessToken", r.ok))
               IN /\ StoreAccessToken(r)
                  /\ Inject(storeFails)
                  /\ UNCHANGED <<refreshTokenMap, nextRefreshTokenId>>
                  /\ IF r.ok
                     THEN Advance(p, RefreshNext("refresh.createAccessToken"), g, log)
                     ELSE Finish(p, [g EXCEPT !.thrown = r.error],
                                 Threw(OuterCatch(InvalidTokenError(r.error))), log)
    /\ UNCHANGED <<config, now, ticks>>

\* A refresh that grants the new access token the whole scope of its user.
RefreshCreateAccessToken_UserScope(p) ==
    /\ pc[p] = "refresh.createAccessToken"
    /\ CanCreate
    /\ \E storeFails \in FaultChoices :
       LET f == frame[p]
           r == createAccessToken(calculateExpires(accessTokenLifetime),
                                  credentialMap[f.oldAccessToken.userId].scope,
                                  f.oldAccessToken.userId, storeFails)
           g == [f EXCEPT !.newAccessToken = r.value]
           log == Append(calls[p], Call("createAccessToken", r.ok))
       IN /\ StoreAccessToken(r)
          /\ Inject(storeFails)
          /\ IF r.ok
             THEN Advance(p, RefreshNext("refresh.createAccessToken"), g, log)
             ELSE Finish(p, [g EXCEPT !.thrown = r.error],
                         Threw(OuterCatch(InvalidTokenError(r.error))), log)
    /\ UNCHANGED <<refreshTokenMap, nextRefreshTokenId, config, now, ticks>>

\* A refresh that refuses an old access token that has expired.
RefreshCreateAccessToken_TestsExpiry(p) ==
    /\ pc[p] = "refresh.createAccessToken"
    /\ IF Expired(frame[p].oldAccessToken.expires)
       THEN /\ Finish(p, frame[p], Threw(OuterCatch(InvalidTokenError(StringSource(
                          "token: Expired access token")))), calls[p])
            /\ UNCHANGED <<store, faults>>
       ELSE /\ CanCreate
            /\ \E storeFails \in FaultChoices :
               LET f == frame[p]
                   r == createAccessToken(calculateExpires(accessTokenLifetime),
                                          f.oldAccessToken.scope,
                                          f.oldAccessToken.userId, storeFails)
                   g == [f EXCEPT !.newAccessToken = r.value]
                   log == Append(calls[p], Call("createAccessToken", r.ok))
               IN /\ StoreAccessToken(r)
                  /\ Inject(storeFails)
                  /\ UNCHANGED <<refreshTokenMap, nextRefreshTokenId>>
                  /\ IF r.ok
                     THEN Advance(p, RefreshNext("refresh.createAccessToken"), g, log)
                     ELSE Finish(p, [g EXCEPT !.thrown = r.error],
                                 Threw(OuterCatch(InvalidTokenError(r.error))), log)
    /\ UNCHANGED <<config, now, ticks>>

\* refresh(), the await of createAccessToken.
RefreshCreateAccessToken(p) ==
    /\ pc[p] = "refresh.createAccessToken"
    /\ CanCreate
    /\ \E storeFails \in FaultChoices :
       LET f == frame[p]
           r == createAccessToken(calculateExpires(accessTokenLifetime),
                                  f.oldAccessToken.scope, f.oldAccessToken.userId,
                                  storeFails)
           g == [f EXCEPT !.newAccessToken = r.value]
           log == Append(calls[p], Call("createAccessToken", r.ok))
       IN /\ StoreAccessToken(r)
          /\ Inject(storeFails)
          /\ IF r.ok
             THEN Advance(p, RefreshNext("refresh.createAccessToken"), g, log)
             ELSE Finish(p, [g EXCEPT !.thrown = r.error],
                         Threw(OuterCatch(InvalidTokenError(r.error))), log)
    /\ UNCHANGED <<refreshTokenMap, nextRefreshTokenId, config, now, ticks>>

\* A refresh that deletes the access token it created when createRefreshToken
\* fails.
RefreshCreateRefreshToken_RollsBack(p) ==
    /\ pc[p] = "refresh.createRefreshToken"
    /\ \E storeFails \in FaultChoices :
       LET f == frame[p]
           r == createRefreshToken(f.newAccessToken.token,
                                   calculateExpires(refreshTokenLifetime),
                                   f.oldAccessToken.userId, storeFails)
           g == [f EXCEPT !.newRefreshToken = r.value]
           log == Append(calls[p], Call("createRefreshToken", r.ok))
       IN /\ StoreRefreshToken(r)
          /\ Inject(storeFails)
          /\ IF r.ok
             THEN /\ UNCHANGED accessTokenMap
                  /\ Advance(p, RefreshNext("refresh.createRefreshToken"), g, log)
             ELSE /\ accessTokenMap' =
                        [t \in DOMAIN accessTokenMap \ {f.newAccessToken.token}
                            |-> accessTokenMap[t]]
                  /\ Finish(p, [g EXCEPT !.thrown = r.error],
                            Threw(OuterCatch(InvalidTokenError(r.error))), log)
    /\ UNCHANGED <<nextAccessTokenId, config, now, ticks>>

\* refresh(), the await of createRefreshToken.
RefreshCreateRefreshToken(p) ==
    /\ pc[p] = "refresh.createRefreshToken"
    /\ \E storeFails \in FaultChoices :
       LET f == frame[p]
           r == createRefreshToken(f.newAccessToken.token,
                                   calculateExpires(refreshTokenLifetime),
                                   f.oldAccessToken.userId, storeFails)
           g == [f EXCEPT !.newRefreshToken = r.value]
           log == Append(calls[p], Call("createRefreshToken", r.ok))
       IN /\ StoreRefreshToken(r)
          /\ Inject(storeFails)
          /\ IF r.ok
             THEN Advance(p, RefreshNext("refresh.createRefreshToken"), g, log)
             ELSE Finish(p, [g EXCEPT !.thrown = r.error],
                         Threw(OuterCatch(InvalidTokenError(r.error))), log)
    /\ UNCHANGED <<accessTokenMap, nextAccessTokenId, config, now, ticks>>

\* A refresh that takes back the tokens it created when its revoke step fails.
RefreshRevokeAccessToken_RollsBack(p) ==
    /\ pc[p] = "refresh.revokeAccessToken"
    /\ \E failure \in HandlerFailures :
       LET f == frame[p]
           r == Failing(revokeAccessToken(f.oldAccessToken.token), failure,
                        [accessTokenMap |-> accessTokenMap,
                         refreshTokenMap |-> refreshTokenMap])
           log == Append(calls[p], Call("revokeAccessToken", r.ok))
       IN /\ Inject(failure # "none")
          /\ IF r.ok
             THEN /\ accessTokenMap' = r.value.accessTokenMap
                  /\ refreshTokenMap' = r.value.refreshTokenMap
                  /\ Advance(p, RefreshNext("refresh.revokeAccessToken"), f, log)
             ELSE /\ accessTokenMap' =
                        [t \in DOMAIN accessTokenMap \ {f.newAccessToken.token}
                            |-> accessTokenMap[t]]
                  /\ refreshTokenMap' =
                        [t \in DOMAIN refreshTokenMap \ {f.newRefreshToken.token}
                            |-> refreshTokenMap[t]]
                  /\ Finish(p, [f EXCEPT !.thrown = r.error],
                            Threw(OuterCatch(InvalidTokenError(r.error))), log)
    /\ UNCHANGED <<nextAccessTokenId, nextRefreshTokenId, config, now, ticks>>

\* refresh(), the await of revokeAccessToken and the response.
RefreshRevokeAccessToken(p) ==
    /\ pc[p] = "refresh.revokeAccessToken"
    /\ \E failure \in HandlerFailures :
       LET f == frame[p]
           r == Failing(revokeAccessToken(f.oldAccessToken.token), failure,
                        [accessTokenMap |-> accessTokenMap,
                         refreshTokenMap |-> refreshTokenMap])
           log == Append(calls[p], Call("revokeAccessToken", r.ok))
       IN /\ accessTokenMap' = r.value.accessTokenMap
          /\ refreshTokenMap' = r.value.refreshTokenMap
          /\ Inject(failure # "none")
          /\ IF r.ok
             THEN Advance(p, RefreshNext("refresh.revokeAccessToken"), f, log)
             ELSE Finish(p, [f EXCEPT !.thrown = r.error],
                         Threw(OuterCatch(InvalidTokenError(r.error))), log)
    /\ UNCHANGED <<nextAccessTokenId, nextRefreshTokenId, config, now, ticks>>

\* The clock advances: by the access token lifetime, to just past it, or to
\* just past the refresh token lifetime.
TickSteps ==
    {accessTokenLifetime * 1000, (accessTokenLifetime * 1000) + 1,
     (refreshTokenLifetime * 1000) + 1}

Tick ==
    /\ ticks < MaxTicks
    /\ \E d \in TickSteps : now' = now + d
    /\ ticks' = ticks + 1
    /\ last' = NoLast
    /\ UNCHANGED <<store, config, faults, pc, frame, calls>>

\* ------------------------------------------------------------ construction
\* OrchestratorOptions: every field optional (<<>> when not given).
NoOptions ==
    [accessTokenLifetime |-> <<>>, issueRefreshToken |-> <<>>, refreshTokenLifetime |-> <<>>]
ShortLifetimes ==
    [accessTokenLifetime |-> <<1>>, issueRefreshToken |-> <<TRUE>>, refreshTokenLifetime |-> <<2>>]
NoRefreshTokens ==
    [accessTokenLifetime |-> <<>>, issueRefreshToken |-> <<FALSE>>, refreshTokenLifetime |-> <<>>]

\* The constructor: a field of options overrides the default when it is given.
Option(given, default) == IF given # <<>> THEN given[1] ELSE default

Construct(options) ==
    /\ accessTokenLifetime = Option(options.accessTokenLifetime, DefaultAccessTokenLifetime)
    /\ issueRefreshToken = Option(options.issueRefreshToken, DefaultIssueRefreshToken)
    /\ refreshTokenLifetime = Option(options.refreshTokenLifetime, DefaultRefreshTokenLifetime)

Idle ==
    /\ pc = [p \in Procs |-> "idle"]
    /\ frame = [p \in Procs |-> EmptyFrame]
    /\ calls = [p \in Procs |-> <<>>]
    /\ last = NoLast

\* The runs with one caller at a time: the options and the environment a
\* run is constructed with, and whether its clock advances and its store
\* fails.
Scenarios ==
    {[options |-> NoOptions, superuser |-> <<>>, wide |-> FALSE,
      clock |-> TRUE, failures |-> FALSE],
     [options |-> ShortLifetimes, superuser |-> <<>>, wide |-> TRUE,
      clock |-> FALSE, failures |-> TRUE],
     [options |-> NoRefreshTokens, superuser |-> <<>>, wide |-> TRUE,
      clock |-> FALSE, failures |-> TRUE],
     [options |-> NoOptions, superuser |-> <<"r">>, wide |-> TRUE,
      clock |-> FALSE, failures |-> FALSE]}

\* The users of resetAll() before any token is issued: empty token maps,
\* token numbering from 1.
Init ==
    /\ accessTokenMap = <<>>
    /\ refreshTokenMap = <<>>
    /\ nextAccessTokenId = 0
    /\ nextRefreshTokenId = 0
    /\ concurrency = 1
    /\ now = 0
    /\ \E scenario \in Scenarios :
        /\ Construct(scenario.options)
        /\ SUPERUSER_SCOPE = scenario.superuser
        /\ wide = scenario.wide
        /\ ticks = IF scenario.clock THEN 0 ELSE MaxTicks
        /\ faults = IF scenario.failures THEN 0 ELSE MaxFaults
    /\ Idle

\* resetAll() for the user fred: an access token with the user's scope and
\* a refresh token for it, both expiring at the time of the reset.  Two
\* concurrent callers; the clock stands still and the store does not fail.
InitConcurrent ==
    /\ accessTokenMap =
         Put(<<>>, [expires |-> 0, scope |-> credentialMap["fred"].scope,
                    token |-> <<"access", 1>>, userId |-> "fred"])
    /\ refreshTokenMap =
         Put(<<>>, [accessToken |-> <<"access", 1>>, expires |-> 0,
                    token |-> <<"refresh", 1>>, userId |-> "fred"])
    /\ nextAccessTokenId = 1
    /\ nextRefreshTokenId = 1
    /\ concurrency = 2
    /\ wide = FALSE
    /\ now = 0
    /\ ticks = MaxTicks
    /\ faults = MaxFaults
    /\ \E options \in {NoOptions, NoRefreshTokens} : Construct(options)
    /\ SUPERUSER_SCOPE = <<>>
    /\ Idle

Calls ==
    \/ \E p \in Procs : Token(p)
    \/ \E p \in Procs : Authorize(p)
    \/ \E p \in Procs : Revoke(p)
    \/ \E p \in Procs : PasswordCreateAccessToken(p)
    \/ \E p \in Procs : PasswordCreateRefreshToken(p)
    \/ \E p \in Procs : RefreshRetrieveAccessToken(p)
    \/ \E p \in Procs : RefreshCreateAccessToken(p)
    \/ \E p \in Procs : RefreshCreateRefreshToken(p)
    \/ \E p \in Procs : RefreshRevokeAccessToken(p)

Next == Calls \/ Tick

Spec == Init /\ [][Next]_vars

SpecConcurrent == InitConcurrent /\ [][Calls]_vars

\* ------------------------------------------------------- the scope matcher
\* includedScope on its own: the strings of up to MaxLen characters over two
\* letters and the space, with and without a superuser scope configured.
ScopeAlphabet == {"a", "b", " "}
ScopeStrings == UNION {[1..n -> ScopeAlphabet] : n \in 0..MaxLen}
SuperuserInputs == {<<>>, <<"a">>}

\* What a call of includedScope returns.
ReturnedBoolean(b) ==
    [status |-> IF b THEN "returned true" ELSE "returned false",
     response |-> NoResponse, error |-> NoError]

\* A call of includedScope(required, allowed) is about to be made.
InitIncludedScope ==
    /\ accessTokenMap = <<>>
    /\ refreshTokenMap = <<>>
    /\ nextAccessTokenId = 0
    /\ nextRefreshTokenId = 0
    /\ concurrency = 1
    /\ wide = TRUE
    /\ now = 0
    /\ ticks = MaxTicks
    /\ faults = MaxFaults
    /\ Construct(NoOptions)
    /\ SUPERUSER_SCOPE \in SuperuserInputs
    /\ \E required \in ScopeStrings, allowed \in ScopeStrings :
          frame = [p \in Procs |->
                      IF p = 1
                      THEN [EmptyFrame EXCEPT !.op = "includedScope",
                                              !.required = required,
                                              !.user = [scope |-> allowed, userId |-> ""]]
                      ELSE EmptyFrame]
    /\ pc = [p \in Procs |-> IF p = 1 THEN "includedScope" ELSE "idle"]
    /\ calls = [p \in Procs |-> <<>>]
    /\ last = NoLast

\* includedScope(required, allowed) returns.
IncludedScope(p) ==
    /\ pc[p] = "includedScope"
    /\ Finish(p, frame[p],
              ReturnedBoolean(includedScope(frame[p].required, frame[p].user.scope)),
              <<>>)
    /\ UNCHANGED <<store, config, now, ticks, faults>>

SpecIncludedScope == InitIncludedScope /\ [][\E p \in Procs : IncludedScope(p)]_vars

\* ------------------------------------------------------ handlers that complete
\* One caller at a time whose handler calls complete: the event loop resumes
\* a suspended call once the promise it awaits has settled, so a step that
\* stays possible is eventually taken.  The store may fail, the clock
\* stands still, and createAccessToken does not complete once the run has
\* created the tokens it may create (CanCreate).
Resume(p) ==
    \/ PasswordCreateAccessToken(p)
    \/ PasswordCreateRefreshToken(p)
    \/ RefreshRetrieveAccessToken(p)
    \/ RefreshCreateAccessToken(p)
    \/ RefreshCreateRefreshToken(p)
    \/ RefreshRevokeAccessToken(p)

InitCompleting ==
    /\ accessTokenMap = <<>>
    /\ refreshTokenMap = <<>>
    /\ nextAccessTokenId = 0
    /\ nextRefreshTokenId = 0
    /\ concurrency = 1
    /\ now = 0
    /\ \E options \in {ShortLifetimes, NoRefreshTokens} : Construct(options)
    /\ SUPERUSER_SCOPE = <<>>
    /\ wide = FALSE
    /\ ticks = MaxTicks
    /\ faults = 0
    /\ Idle

SpecCompleting ==
    InitCompleting /\ [][Calls]_vars /\ \A p \in Procs : WF_vars(Resume(p))

\* ------------------------------------------------------------- properties
RefreshSteps ==
    {"refresh.retrieveAccessToken", "refresh.createAccessToken",
     "refresh.createRefreshToken", "refresh.revokeAccessToken"}

\* The handler cap was called and succeeded before the i-th call of log.
SucceededBefore(log, i, cap) ==
    \E j \in 1..(i - 1) : log[j] = Call(cap, TRUE)

Called(log, cap) == \E i \in 1..Len(log) : log[i].cap = cap

RevokeAfterCreate(log) ==
    \A i \in 1..Len(log) :
        log[i].cap = "revokeAccessToken" =>
            /\ SucceededBefore(log, i, "createAccessToken")
            /\ issueRefreshToken => SucceededBefore(log, i, "createRefreshToken")

\* The tokens a refresh retrieved are in the store as it retrieved them.
OldTokensIntact(f) ==
    /\ f.oldRefreshToken # NoRefreshToken =>
          /\ f.oldRefreshToken.token \in DOMAIN refreshTokenMap
          /\ refreshTokenMap[f.oldRefreshToken.token] = f.oldRefreshToken
    /\ f.oldAccessToken # NoAccessToken =>
          /\ f.oldAccessToken.token \in DOMAIN accessTokenMap
          /\ accessTokenMap[f.oldAccessToken.token] = f.oldAccessToken

\* C1: in every refresh, revokeAccessToken is called only after
\* createAccessToken, and createRefreshToken when issueRefreshToken is set,
\* have succeeded; while the refresh has not reached the revocation, and when
\* it has failed before it, the old access token and the old refresh token
\* are in the store exactly as the refresh retrieved them.
C1_RevokeOnlyAfterCreate ==
    /\ \A p \in Procs :
          frame[p].op = "refresh" =>
              /\ RevokeAfterCreate(calls[p])
              /\ ~Called(calls[p], "revokeAccessToken") => OldTokensIntact(frame[p])
    /\ last.frame.op = "refresh" =>
          /\ RevokeAfterCreate(last.calls)
          /\ (last.result.status = "threw"
                /\ ~Called(last.calls, "revokeAccessToken")) =>
                    OldTokensIntact(last.frame)

\* A refresh has failed at createRefreshToken, after its new access token
\* was created, and the old pair is still stored.
C1_Witness ==
    /\ last.frame.op = "refresh"
    /\ last.result.status = "threw"
    /\ Len(last.calls) = 4
    /\ last.calls[3] = Call("createAccessToken", TRUE)
    /\ last.calls[4] = Call("createRefreshToken", FALSE)
    /\ last.frame.oldRefreshToken.token \in DOMAIN refreshTokenMap
    /\ last.frame.oldAccessToken.token \in DOMAIN accessTokenMap

RefreshReturned == last.frame.op = "refresh" /\ last.result.status = "returned"

\* The store right after a refresh has returned its response.
RefreshSuperseded ==
    RefreshReturned =>
        /\ last.frame.oldAccessToken.token \notin DOMAIN accessTokenMap
        /\ \A r \in DOMAIN refreshTokenMap :
               refreshTokenMap[r].accessToken # last.frame.oldAccessToken.token
        /\ last.frame.token \notin DOMAIN refreshTokenMap
        /\ last.result.response.access_token \in DOMAIN accessTokenMap
        /\ issueRefreshToken => last.result.response.refresh_token # NoTokenValue
        /\ last.result.response.refresh_token # NoTokenValue =>
               last.result.response.refresh_token \in DOMAIN refreshTokenMap

\* C2: after a refresh returns a response the old access token and every
\* refresh token that referenced it are not retrievable and the tokens named
\* in the response are; a refresh token that is no longer stored never comes
\* back, and a refresh asked with a refresh token that is not stored fails
\* with InvalidToken.
C2_AfterRefresh ==
    [][/\ RefreshSuperseded'
       /\ \A n \in 1..nextRefreshTokenId :
              <<"refresh", n>> \notin DOMAIN refreshTokenMap =>
                  <<"refresh", n>> \notin DOMAIN refreshTokenMap'
       /\ (/\ last'.frame.op = "refresh"
           /\ pc[last'.caller] = "idle"
           /\ last'.frame.token \notin DOMAIN refreshTokenMap) =>
               /\ last'.result.status = "threw"
               /\ last'.result.error.kind = "InvalidTokenError"
               /\ last'.result.error.error = "invalid_token"]_vars

\* A refresh has returned a response that names a new refresh token.
C2_Witness ==
    /\ RefreshReturned
    /\ last.result.response.refresh_token # NoTokenValue
    /\ last.result.response.refresh_token # last.frame.token

\* C3: a refresh suspended at any of its handler calls does not keep another
\* caller from refreshing the same refresh token: while the token is stored
\* a free caller can start a refresh of it and pass the retrieval, and a
\* refresh suspended before createAccessToken can create its access token.
C3_NoSerialisation ==
    \A q \in Procs :
        /\ (pc[q] \in RefreshSteps /\ frame[q].token \in DOMAIN refreshTokenMap) =>
              \A p \in Procs \ {q} :
                  pc[p] = "idle" =>
                      ENABLED (/\ Token(p)
                               /\ pc'[p] = "refresh.retrieveAccessToken"
                               /\ frame'[p].token = frame[q].token)
        /\ (pc[q] = "refresh.createAccessToken" /\ CanCreate) =>
              ENABLED RefreshCreateAccessToken(q)

\* Two refreshes of one refresh token are in progress and each has created
\* a new access token.
C3_Witness ==
    /\ frame[1].op = "refresh"
    /\ frame[2].op = "refresh"
    /\ frame[1].token = frame[2].token
    /\ frame[1].newAccessToken # NoAccessToken
    /\ frame[2].newAccessToken # NoAccessToken
    /\ frame[1].newAccessToken.token # frame[2].newAccessToken.token
    /\ frame[1].newAccessToken.token \in DOMAIN accessTokenMap
    /\ frame[2].newAccessToken.token \in DOMAIN accessTokenMap

\* The refresh token stored under r references an access token that is not stored.
Dangling(r) == refreshTokenMap[r].accessToken \notin DOMAIN accessTokenMap

Superseding(token) ==
    \E p \in Procs : pc[p] \in RefreshSteps /\ frame[p].oldAccessToken.token = token

\* C4 as stated: in every reachable state every stored refresh token
\* references an access token that is stored, or one that a refresh in
\* progress is superseding.
C4_EveryRefreshTokenReferencesStored ==
    \A r \in DOMAIN refreshTokenMap :
        Dangling(r) => Superseding(refreshTokenMap[r].accessToken)

\* A flow is suspended at createRefreshToken and the access token it has
\* just created, the one its refresh token will reference, is gone.
CreatesFor(p, token) ==
    /\ pc[p] \in {"password.createRefreshToken", "refresh.createRefreshToken"}
    /\ frame[p].newAccessToken.token = token
    /\ token \notin DOMAIN accessTokenMap

\* C4, amended: a step leaves a stored refresh token referencing an access
\* token that is not stored (nor being superseded by a refresh in progress)
\* only if the refresh token already did so before the step, or the step is
\* the createRefreshToken of a flow whose new access token another caller
\* revoked after the flow had created it.
C4_DanglingOnlyByRace ==
    [][\A r \in DOMAIN refreshTokenMap' :
           (/\ refreshTokenMap'[r].accessToken \notin DOMAIN accessTokenMap'
            /\ ~\E p \in Procs :
                    /\ pc'[p] \in RefreshSteps
                    /\ frame'[p].oldAccessToken.token = refreshTokenMap'[r].accessToken) =>
               \/ r \in DOMAIN refreshTokenMap /\ Dangling(r)
               \/ /\ r \notin DOMAIN refreshTokenMap
                  /\ \E p \in Procs : CreatesFor(p, refreshTokenMap'[r].accessToken)]_vars

\* A revocation has just returned and the refresh tokens that remain stored
\* all reference stored access tokens.
C4_Witness ==
    /\ last.frame.op = "revoke"
    /\ last.result.status = "returned"
    /\ DOMAIN refreshTokenMap # {}
    /\ \A r \in DOMAIN refreshTokenMap : ~Dangling(r)

AuthorizeEnded == last.frame.op = "authorize"

\* The handler of the call failed for a cause of the store.
StoreFailed(f) == f.thrown \in {HandlerFailure("Error"), HandlerFailure("OAuthError")}

\* What retrieveAccessToken gave for the token of the authorize that ended
\* (authorize leaves the store as it found it): the Error it threw, or what
\* the store holds.
Authorized ==
    IF last.frame.thrown # NoError THEN Thrown(last.frame.thrown, NoAccessToken)
    ELSE retrieveAccessToken(last.frame.token)

\* C5: authorize returns normally exactly when retrieveAccessToken succeeds,
\* the current time is not later than the token's expires and the scope
\* matcher reports the required scope as included in the token's scope; in
\* every other case it throws.
C5_AuthorizeReturnsIff ==
    AuthorizeEnded =>
        /\ last.result.status \in {"returned", "threw"}
        /\ last.result.status = "returned" <=>
              /\ Authorized.ok
              /\ now <= Authorized.value.expires
              /\ includedScope(last.frame.required, Authorized.value.scope)

\* authorize has returned at the very instant its token expires.
C5_Witness ==
    /\ AuthorizeEnded
    /\ last.result.status = "returned"
    /\ now > 0
    /\ now = Authorized.value.expires

C7_ExpiredIsInvalidToken ==
    (AuthorizeEnded /\ Authorized.ok /\ now > Authorized.value.expires) =>
        /\ last.result.status = "threw"
        /\ last.result.error.kind = "InvalidTokenError"
        /\ last.result.error.error = "invalid_token"
        /\ last.result.error.message = "token: Expired access token"

\* authorize has ended on an expired token that lacks the required scope.
C7_Witness ==
    /\ AuthorizeEnded
    /\ Authorized.ok
    /\ now > Authorized.value.expires
    /\ ~includedScope(last.frame.required, Authorized.value.scope)

\* C8: authorize on a retrievable, unexpired access token whose scope does
\* not include the required scope throws InvalidScopeError (invalid_scope)
\* with status 403.
C8_MissingScopeIsInvalidScope ==
    (/\ AuthorizeEnded
     /\ Authorized.ok
     /\ now <= Authorized.value.expires
     /\ ~includedScope(last.frame.required, Authorized.value.scope)) =>
        /\ last.result.status = "threw"
        /\ last.result.error.kind = "InvalidScopeError"
        /\ last.result.error.error = "invalid_scope"
        /\ last.result.error.status = 403

\* authorize has ended on a stored, unexpired token of the user fred for a
\* required scope that fred's scope does not include.
C8_Witness ==
    /\ AuthorizeEnded
    /\ Authorized.ok
    /\ now <= Authorized.value.expires
    /\ Authorized.value.userId = "fred"
    /\ ~includedScope(last.frame.required, Authorized.value.scope)
    /\ last.result.status = "threw"

\* C9: an authorize that ends, returning or throwing, has left the stored
\* access tokens, the stored refresh tokens and the configuration as they
\* were and has called retrieveAccessToken and nothing else; an authorize
\* that follows a successful one with the same token and required scope
\* succeeds too, unless the store fails under it.
C9_AuthorizeChangesNothing ==
    [][last'.frame.op = "authorize" =>
           /\ store' = store
           /\ config' = config
           /\ Len(last'.calls) = 1
           /\ last'.calls[1].cap = "retrieveAccessToken"
           /\ (/\ AuthorizeEnded
               /\ last.result.status = "returned"
               /\ last'.frame.token = last.frame.token
               /\ last'.frame.required = last.frame.required
               /\ ~StoreFailed(last'.frame)) =>
                   last'.result.status = "returned"]_vars

\* authorize has returned on a store that holds access and refresh tokens.
C9_Witness ==
    /\ AuthorizeEnded
    /\ last.result.status = "returned"
    /\ now < Authorized.value.expires
    /\ DOMAIN refreshTokenMap # {}

GrantTypes == {PASSWORD_GRANT_TYPE, REFRESH_GRANT_TYPE}

\* C10: token(request) with a grant_type other than "password" and
\* "refresh_token" throws UnsupportedGrantTypeError with status 400, has
\* called no handler and leaves the token store as it was; no flow is ever
\* in progress for such a request.
C10_OtherGrantTypeUnsupported ==
    [][/\ \A p \in Procs : pc'[p] # "idle" => frame'[p].grant_type \in GrantTypes
       /\ (/\ last'.frame.op \in {"token", "password", "refresh"}
           /\ last'.frame.grant_type \notin GrantTypes) =>
               /\ last'.result.status = "threw"
               /\ last'.result.error.kind = "UnsupportedGrantTypeError"
               /\ last'.result.error.error = "unsupported_grant_type"
               /\ last'.result.error.status = 400
               /\ last'.calls = <<>>
               /\ store' = store]_vars

\* token() has ended on a request of grant type "authorization_code" while
\* the store holds tokens.
C10_Witness ==
    /\ last.frame.op = "token"
    /\ last.frame.grant_type = "authorization_code"
    /\ last.result.status = "threw"
    /\ DOMAIN accessTokenMap # {}
    /\ DOMAIN refreshTokenMap # {}

RevokeEnded == last.frame.op = "revoke"

\* C11 as stated: revoke fails with InvalidToken for every failure of
\* revokeAccessToken, whatever error the handler raised.
C11_RevokeFailureIsInvalidToken ==
    (RevokeEnded /\ last.calls = <<Call("revokeAccessToken", FALSE)>>) =>
        /\ last.result.status = "threw"
        /\ last.result.error.kind = "InvalidTokenError"

\* C11, amended: when revokeAccessToken fails, also for a token that is not
\* found, revoke throws InvalidTokenError "token: Invalid access token"
\* (invalid_token, 401, nothing wrapped), unless the handler threw an
\* OAuthError, which revoke rethrows as it is.
C11_RevokeFailureNormalised ==
    (RevokeEnded /\ last.calls = <<Call("revokeAccessToken", FALSE)>>) =>
        /\ last.result.status = "threw"
        /\ last.frame.thrown.kind \in
               {"InvalidGrantError", "InvalidRequestError", "InvalidScopeError",
                "InvalidTokenError", "ServerError", "UnsupportedGrantTypeError"} =>
                   last.result.error = last.frame.thrown
        /\ last.frame.thrown.kind = "Error" =>
               /\ last.result.error.kind = "InvalidTokenError"
               /\ last.result.error.error = "invalid_token"
               /\ last.result.error.status = 401
               /\ last.result.error.message = "token: Invalid access token"
               /\ last.result.error.inner = NoInner

\* revoke has ended on a handler that threw an OAuthError of its own.
C11_Witness ==
    /\ RevokeEnded
    /\ last.frame.thrown.kind = "ServerError"
    /\ last.result.status = "threw"
    /\ last.result.error.kind = "ServerError"

\* C12: when revoke(token) returns normally the access token is no longer
\* stored, no stored refresh token references it, and every other access
\* token and refresh token is stored as it was (none added, none changed).
C12_RevokeRemovesOnlyItsTokens ==
    [][(last'.frame.op = "revoke" /\ last'.result.status = "returned") =>
           LET token == last'.frame.token IN
           /\ token \in DOMAIN accessTokenMap
           /\ token \notin DOMAIN accessTokenMap'
           /\ \A r \in DOMAIN refreshTokenMap' : refreshTokenMap'[r].accessToken # token
           /\ DOMAIN accessTokenMap' = DOMAIN accessTokenMap \ {token}
           /\ \A t \in DOMAIN accessTokenMap' : accessTokenMap'[t] = accessTokenMap[t]
           /\ DOMAIN refreshTokenMap' =
                  {r \in DOMAIN refreshTokenMap : refreshTokenMap[r].accessToken # token}
           /\ \A r \in DOMAIN refreshTokenMap' : refreshTokenMap'[r] = refreshTokenMap[r]]_vars

\* revoke has returned, its token is gone, and another access token and a
\* refresh token of the same user are still stored.
C12_Witness ==
    /\ RevokeEnded
    /\ last.result.status = "returned"
    /\ last.frame.token \notin DOMAIN accessTokenMap
    /\ \E t \in DOMAIN accessTokenMap, r \in DOMAIN refreshTokenMap :
           /\ refreshTokenMap[r].accessToken = t
           /\ refreshTokenMap[r].userId = accessTokenMap[t].userId

\* C13: an access token that revoke has removed is never stored again, and
\* authorize on an access token that is not stored throws InvalidTokenError
\* (invalid_token, 401) whatever the required scope: once revoked, a token
\* never becomes valid again.
C13_RevokedStaysInvalid ==
    [][/\ (last'.frame.op = "revoke" /\ last'.result.status = "returned") =>
              last'.frame.token \notin DOMAIN accessTokenMap'
       /\ \A n \in 1..nextAccessTokenId :
              <<"access", n>> \notin DOMAIN accessTokenMap =>
                  <<"access", n>> \notin DOMAIN accessTokenMap'
       /\ (/\ last'.frame.op = "authorize"
           /\ last'.frame.token \notin DOMAIN accessTokenMap) =>
               /\ last'.result.status = "threw"
               /\ last'.result.error.kind = "InvalidTokenError"
               /\ last'.result.error.error = "invalid_token"
               /\ last'.result.error.status = 401]_vars

\* authorize has failed on an access token that was issued and is no longer
\* stored, for a required scope that every user has.
C13_Witness ==
    /\ AuthorizeEnded
    /\ last.frame.token \in {<<"access", n>> : n \in 1..nextAccessTokenId}
    /\ last.frame.token \notin DOMAIN accessTokenMap
    /\ last.frame.required = <<"a">>
    /\ last.result.error.kind = "InvalidTokenError"

PasswordEnded == last.frame.op = "password"

\* The request carries a scope: present and not the empty string.
ScopeRequested(f) == f.scope # Absent /\ f.scope[1] # <<>>

\* C14: in the password flow a failure of authenticateUser makes token()
\* throw InvalidGrantError (invalid_grant, 401) with the handler's Error as
\* its inner; no other handler is called, so no token is created, and no
\* password flow goes on after a failed authentication.
C14_AuthenticationFailureIsInvalidGrant ==
    /\ \A p \in Procs :
          frame[p].op = "password" => calls[p][1] = Call("authenticateUser", TRUE)
    /\ (PasswordEnded /\ last.calls[1] = Call("authenticateUser", FALSE)) =>
          /\ last.result.status = "threw"
          /\ last.result.error.kind = "InvalidGrantError"
          /\ last.result.error.error = "invalid_grant"
          /\ last.result.error.status = 401
          /\ last.result.error.inner =
                 [kind |-> last.frame.thrown.kind, message |-> last.frame.thrown.message]
          /\ last.frame.thrown \in {RawError("credentials: Invalid credentials"),
                                    HandlerFailure("OAuthError")}
          /\ Len(last.calls) = 1
          /\ last.frame.newAccessToken = NoAccessToken
          /\ last.frame.newRefreshToken = NoRefreshToken

\* A password grant has failed at authenticateUser while tokens are stored.
C14_Witness ==
    /\ PasswordEnded
    /\ last.calls = <<Call("authenticateUser", FALSE)>>
    /\ last.result.error.kind = "InvalidGrantError"
    /\ DOMAIN accessTokenMap # {}

\* C15: in the password flow a requested scope that is not included in the
\* scope of the authenticated user makes token() throw InvalidScopeError
\* (invalid_scope), with createAccessToken and createRefreshToken not
\* called; a flow with such a request never gets to create a token.
C15_ScopeNotAllowedIsInvalidScope ==
    /\ \A p \in Procs :
          (/\ frame[p].op = "password"
           /\ ScopeRequested(frame[p])
           /\ ~includedScopeWith(SUPERUSER_SCOPE, frame[p].scope[1], frame[p].user.scope)) =>
              calls[p] = <<Call("authenticateUser", TRUE)>>
    /\ (/\ PasswordEnded
        /\ last.calls[1] = Call("authenticateUser", TRUE)
        /\ ScopeRequested(last.frame)
        /\ ~includedScopeWith(SUPERUSER_SCOPE, last.frame.scope[1], last.frame.user.scope)) =>
           /\ last.result.status = "threw"
           /\ last.result.error.kind = "InvalidScopeError"
           /\ last.result.error.error = "invalid_scope"
           /\ last.calls = <<Call("authenticateUser", TRUE)>>

\* The user barney, whose scope has no "f", has asked for the scope "f" and
\* the grant has failed.
C15_Witness ==
    /\ PasswordEnded
    /\ last.frame.user.userId = "barney"
    /\ last.frame.scope = Present(<<"f">>)
    /\ last.result.status = "threw"

\* C16: a successful password grant gives the access token, and reports in
\* the response, exactly the requested scope when the request carries one,
\* and exactly the user's whole scope when the scope is absent or empty.
C16_GrantedScope ==
    (PasswordEnded /\ last.result.status = "returned") =>
        LET granted == IF ScopeRequested(last.frame) THEN last.frame.scope[1]
                       ELSE last.frame.user.scope
        IN /\ last.result.response.scope = granted
           /\ last.result.response.access_token \in DOMAIN accessTokenMap
           /\ accessTokenMap[last.result.response.access_token].scope = granted
           /\ ScopeRequested(last.frame) =>
                  includedScopeWith(SUPERUSER_SCOPE, granted, last.frame.user.scope)

\* The user fred has been granted the narrower scope "a" it asked for.
C16_Witness ==
    /\ PasswordEnded
    /\ last.result.status = "returned"
    /\ last.frame.user.scope = <<"a", " ", "f">>
    /\ last.frame.scope = Present(<<"a">>)
    /\ last.result.response.scope = <<"a">>

\* How many times the handler cap was called in log.
CallCount(log, cap) == Cardinality({i \in 1..Len(log) : log[i].cap = cap})

\* C17: with issueRefreshToken set, a successful password grant has called
\* createRefreshToken exactly once, for the access token it has just created
\* and the user's userId, and returns the value of that refresh token as
\* refresh_token; with issueRefreshToken unset no password flow ever calls
\* createRefreshToken and the response has no refresh_token.
C17_PasswordRefreshToken ==
    /\ ~issueRefreshToken =>
          /\ \A p \in Procs :
                frame[p].op = "password" => ~Called(calls[p], "createRefreshToken")
          /\ PasswordEnded =>
                /\ ~Called(last.calls, "createRefreshToken")
                /\ last.result.response.refresh_token = NoTokenValue
    /\ (issueRefreshToken /\ PasswordEnded /\ last.result.status = "returned") =>
          LET response == last.result.response IN
          /\ CallCount(last.calls, "createRefreshToken") = 1
          /\ last.calls[Len(last.calls)] = Call("createRefreshToken", TRUE)
          /\ response.refresh_token # NoTokenValue
          /\ response.refresh_token \in DOMAIN refreshTokenMap
          /\ refreshTokenMap[response.refresh_token].accessToken = response.access_token
          /\ refreshTokenMap[response.refresh_token].userId = last.frame.user.userId
          /\ last.frame.newRefreshToken = refreshTokenMap[response.refresh_token]
          /\ last.frame.newAccessToken.token = response.access_token

\* A password grant has returned a refresh token issued for its access token.
C17_Witness ==
    /\ PasswordEnded
    /\ last.result.status = "returned"
    /\ issueRefreshToken
    /\ last.result.response.refresh_token \in DOMAIN refreshTokenMap
    /\ refreshTokenMap[last.result.response.refresh_token].accessToken =
           last.result.response.access_token

\* C18: with issueRefreshToken set, a successful refresh has created exactly
\* one refresh token, bound to the new access token, and returns it as
\* refresh_token; with issueRefreshToken unset it has created none, returns
\* none, and has still revoked the old access token and its refresh tokens.
C18_RefreshRefreshToken ==
    RefreshReturned =>
        /\ last.calls[Len(last.calls)] = Call("revokeAccessToken", TRUE)
        /\ last.frame.oldAccessToken.token \notin DOMAIN accessTokenMap
        /\ \A r \in DOMAIN refreshTokenMap :
               refreshTokenMap[r].accessToken # last.frame.oldAccessToken.token
        /\ issueRefreshToken =>
               /\ CallCount(last.calls, "createRefreshToken") = 1
               /\ Called(last.calls, "createRefreshToken")
               /\ last.frame.newRefreshToken.accessToken = last.frame.newAccessToken.token
               /\ last.frame.newRefreshToken.token # last.frame.oldRefreshToken.token
               /\ last.result.response.refresh_token = last.frame.newRefreshToken.token
               /\ last.result.response.access_token = last.frame.newAccessToken.token
        /\ ~issueRefreshToken =>
               /\ ~Called(last.calls, "createRefreshToken")
               /\ last.frame.newRefreshToken = NoRefreshToken
               /\ last.result.response.refresh_token = NoTokenValue

\* A refresh has returned from an engine that issues no refresh tokens.
C18_Witness ==
    /\ RefreshReturned
    /\ ~issueRefreshToken
    /\ last.result.response.access_token \in DOMAIN accessTokenMap
    /\ last.frame.token \notin DOMAIN refreshTokenMap

TokenReturned ==
    last.frame.op \in {"password", "refresh"} /\ last.result.status = "returned"

\* C19: every response of token(), of the password flow or of the refresh
\* flow, has token_type "Bearer", the value of the one access token created
\* in the call as access_token, the configured accessTokenLifetime as
\* expires_in and the scope of that access token as scope.
C19_ResponseFields ==
    TokenReturned =>
        /\ last.result.response.token_type = "Bearer"
        /\ CallCount(last.calls, "createAccessToken") = 1
        /\ Called(last.calls, "createAccessToken")
        /\ last.frame.newAccessToken # NoAccessToken
        /\ last.result.response.access_token = last.frame.newAccessToken.token
        /\ last.result.response.expires_in = accessTokenLifetime
        /\ last.result.response.scope = last.frame.newAccessToken.scope

\* A refresh has returned its response from an engine whose access tokens
\* live one second.
C19_Witness ==
    /\ RefreshReturned
    /\ accessTokenLifetime = 1
    /\ last.result.response.expires_in = 1
    /\ last.result.response.scope = <<"a", " ", "f">>

\* C20: in the password flow and in the refresh flow a failure of
\* createAccessToken or of createRefreshToken makes token() throw
\* InvalidTokenError (invalid_token, 401) with the handler's Error as inner.
C20_CreateFailureIsInvalidToken ==
    (/\ last.frame.op \in {"password", "refresh"}
     /\ last.calls[Len(last.calls)] \in
            {Call("createAccessToken", FALSE), Call("createRefreshToken", FALSE)}) =>
        /\ last.result.status = "threw"
        /\ last.result.error.kind = "InvalidTokenError"
        /\ last.result.error.error = "invalid_token"
        /\ last.result.error.status = 401
        /\ last.result.error.inner.kind = "Error"
        /\ last.result.error.inner.message =
               IF last.calls[Len(last.calls)].cap = "createAccessToken"
               THEN "createAccessToken: storage failure"
               ELSE "createRefreshToken: storage failure"

\* A password grant has failed at createRefreshToken.
C20_Witness ==
    /\ PasswordEnded
    /\ last.calls[Len(last.calls)] = Call("createRefreshToken", FALSE)
    /\ last.result.error.kind = "InvalidTokenError"

\* The six kinds of the taxonomy, each with its code and status.
Taxonomy ==
    {<<"InvalidGrantError", "invalid_grant", 401>>,
     <<"InvalidRequestError", "invalid_request", 400>>,
     <<"InvalidScopeError", "invalid_scope", 403>>,
     <<"InvalidTokenError", "invalid_token", 401>>,
     <<"ServerError", "server_error", 500>>,
     <<"UnsupportedGrantTypeError", "unsupported_grant_type", 400>>}

CallEnded == last.frame.op \in {"authorize", "revoke", "token", "password", "refresh"}

C23_UnusableRefreshToken ==
    [][/\ \A p \in Procs :
            /\ (pc[p] = "idle" /\ pc'[p] = "refresh.retrieveAccessToken") =>
                   store' = store
            /\ (/\ pc[p] = "refresh.retrieveAccessToken"
                /\ pc'[p] # pc[p]
                /\ now > frame[p].oldRefreshToken.expires) =>
                   /\ last'.caller = p
                   /\ last'.result.status = "threw"
                   /\ last'.result.error.kind = "InvalidTokenError"
                   /\ last'.result.error.error = "invalid_token"
                   /\ last'.result.error.message = "token: Expired refresh token"
                   /\ last'.calls = <<Call("retrieveRefreshToken", TRUE)>>
                   /\ store' = store
       /\ (/\ last'.frame.op = "refresh"
           /\ last'.calls[1] = Call("retrieveRefreshToken", FALSE)) =>
              /\ last'.result.status = "threw"
              /\ last'.result.error.kind = "InvalidTokenError"
              /\ last'.result.error.error = "invalid_token"
              /\ Len(last'.calls) = 1
              /\ last'.frame.oldAccessToken = NoAccessToken
              /\ last'.frame.newAccessToken = NoAccessToken
              /\ last'.frame.newRefreshToken = NoRefreshToken
              /\ store' = store]_vars

\* A refresh has failed on an expired refresh token whose access token is
\* still stored.
C23_Witness ==
    /\ last.frame.op = "refresh"
    /\ last.result.status = "threw"
    /\ last.result.error.message = "token: Expired refresh token"
    /\ now > last.frame.oldRefreshToken.expires
    /\ last.frame.oldRefreshToken.accessToken \in DOMAIN accessTokenMap

RefreshEnded == last.frame.op = "refresh"

\* A refresh that went past the expiry test of its refresh token: the second
\* handler it called is retrieveAccessToken.
RefreshTokenAccepted == RefreshEnded /\ Len(last.calls) >= 2

C25_RevokeStepFailureKeepsNewTokens ==
    (RefreshEnded /\ last.calls[Len(last.calls)] = Call("revokeAccessToken", FALSE)) =>
        /\ last.result.status = "threw"
        /\ last.result.response = NoResponse
        /\ last.result.error.kind = "InvalidTokenError"
        /\ last.result.error.error = "invalid_token"
        /\ last.frame.newAccessToken # NoAccessToken
        /\ retrieveAccessToken(last.frame.newAccessToken.token) =
              Ok(last.frame.newAccessToken)
        /\ AuthorizeOutcome(retrieveAccessToken(last.frame.newAccessToken.token),
                            last.frame.newAccessToken.scope).status = "returned"
        /\ issueRefreshToken =>
              /\ last.frame.newRefreshToken # NoRefreshToken
              /\ retrieveRefreshToken(last.frame.newRefreshToken.token) =
                    Ok(last.frame.newRefreshToken)
              /\ ~Expired(last.frame.newRefreshToken.expires)
              /\ last.frame.newRefreshToken.accessToken =
                    last.frame.newAccessToken.token

\* A refresh that issued both tokens has failed at its revoke step.
C25_Witness ==
    /\ RefreshEnded
    /\ last.calls[Len(last.calls)] = Call("revokeAccessToken", FALSE)
    /\ last.frame.newRefreshToken.token \in DOMAIN refreshTokenMap
    /\ last.frame.oldAccessToken.token \in DOMAIN accessTokenMap

\* The userId and scope a password grant of the run can give: the scope
\* asked for when it is included in the user's, the user's when none is asked.
PasswordGrants ==
    {<<credentialMap[c[1]].userId,
       IF Truthy(s) THEN s[1] ELSE credentialMap[c[1]].scope>> :
        <<c, s>> \in {cs \in CredentialInputs \X ScopeInputs :
                         Truthy(cs[2]) =>
                             includedScope(cs[2][1], credentialMap[cs[1][1]].scope)}}

SameGrant(new, old) == new.scope = old.scope /\ new.userId = old.userId

\* C26: a refresh never widens or narrows the scope and never changes the
\* owner: the access token it creates has exactly the scope and the userId
\* of the old access token, and so has its response; every stored access
\* token, after the refreshes that led to it, has a scope and a userId that
\* a password grant gave.
C26_RefreshKeepsScopeAndOwner ==
    /\ \A p \in Procs :
          (frame[p].op = "refresh" /\ frame[p].newAccessToken # NoAccessToken) =>
              SameGrant(frame[p].newAccessToken, frame[p].oldAccessToken)
    /\ (RefreshEnded /\ last.frame.newAccessToken # NoAccessToken) =>
          /\ SameGrant(last.frame.newAccessToken, last.frame.oldAccessToken)
          /\ last.result.status = "returned" =>
                last.result.response.scope = last.frame.oldAccessToken.scope
    /\ \A t \in DOMAIN accessTokenMap :
          <<accessTokenMap[t].userId, accessTokenMap[t].scope>> \in PasswordGrants

\* A refresh has returned for a grant of less than the user's scope, and the
\* new access token is stored with that scope.
C26_Witness ==
    /\ RefreshEnded
    /\ last.result.status = "returned"
    /\ last.frame.oldAccessToken.scope # credentialMap[last.frame.oldAccessToken.userId].scope
    /\ last.frame.newAccessToken.token \in DOMAIN accessTokenMap
    /\ accessTokenMap[last.frame.newAccessToken.token].scope =
           last.frame.oldAccessToken.scope

\* C27: every stored refresh token has the userId of the access token it
\* references: a password grant gives both tokens the userId of the
\* authenticated user, and a refresh gives the new refresh token the userId
\* of the old refresh token, which is that of the new access token.
C27_RefreshTokenOwnerIsAccessTokenOwner ==
    /\ \A r \in DOMAIN refreshTokenMap :
          refreshTokenMap[r].accessToken \in DOMAIN accessTokenMap =>
              refreshTokenMap[r].userId =
                  accessTokenMap[refreshTokenMap[r].accessToken].userId
    /\ (PasswordEnded /\ last.frame.newRefreshToken # NoRefreshToken) =>
          /\ last.frame.newRefreshToken.userId = last.frame.user.userId
          /\ last.frame.newAccessToken.userId = last.frame.user.userId
          /\ last.frame.newRefreshToken.accessToken = last.frame.newAccessToken.token
    /\ (RefreshEnded /\ last.frame.newRefreshToken # NoRefreshToken) =>
          /\ last.frame.newRefreshToken.userId = last.frame.oldRefreshToken.userId
          /\ last.frame.newRefreshToken.userId = last.frame.newAccessToken.userId
          /\ last.frame.newRefreshToken.accessToken = last.frame.newAccessToken.token

\* A refresh for the second user has returned and its refresh token is
\* stored with the access token it references.
C27_Witness ==
    /\ RefreshEnded
    /\ last.result.status = "returned"
    /\ last.frame.oldRefreshToken.userId = "barney"
    /\ last.frame.newRefreshToken.token \in DOMAIN refreshTokenMap
    /\ last.frame.newRefreshToken.accessToken \in DOMAIN accessTokenMap

IncludedEnded == last.frame.op = "includedScope"
Included == last.result.status = "returned true"

\* The whitespace-delimited tokens of a string: its maximal runs of
\* characters other than the space.
Tokens(s) ==
    {SubSeq(s, i, j) : <<i, j>> \in
        {ij \in (1..Len(s)) \X (1..Len(s)) :
            /\ ij[1] <= ij[2]
            /\ \A k \in ij[1]..ij[2] : s[k] # " "
            /\ ij[1] = 1 \/ s[ij[1] - 1] = " "
            /\ ij[2] = Len(s) \/ s[ij[2] + 1] = " "}}

\* C28 as stated: with no superuser scope configured and required non-empty,
\* included(required, allowed) is true exactly when every whitespace-delimited
\* token of required is a whitespace-delimited token of allowed (a substring
\* of an allowed token does not match), and an empty allowed gives false.
C28_IncludedIffTokensContained ==
    (IncludedEnded /\ SUPERUSER_SCOPE = <<>> /\ last.frame.required # <<>>) =>
        /\ Included <=> Tokens(last.frame.required) \subseteq Tokens(last.frame.user.scope)
        /\ last.frame.user.scope = <<>> => ~Included

\* C29: included("", allowed) is true for every allowed string, the empty
\* one too, with or without a superuser scope, so that authorize with an
\* empty required scope accepts every retrieved, unexpired access token
\* whatever its scope.
C29_EmptyRequiredIncluded ==
    (IncludedEnded /\ last.frame.required = <<>>) =>
        /\ Included
        /\ AuthorizeOutcome(Ok([expires |-> now, scope |-> last.frame.user.scope,
                                token |-> <<"access", 1>>, userId |-> ""]),
                            last.frame.required).status = "returned"

\* included("", "") has returned true.
C29_Witness ==
    /\ IncludedEnded
    /\ last.frame.required = <<>>
    /\ last.frame.user.scope = <<>>
    /\ Included

\* A scope written as a list: tokens separated by single spaces, no space
\* at either end (the empty string is the empty list).
IsTokenList(s) ==
    /\ s # <<>> => s[1] # " " /\ s[Len(s)] # " "
    /\ \A i \in 1..(Len(s) - 1) : ~(s[i] = " " /\ s[i + 1] = " ")

\* The token lists that have the tokens of s, in any order and any number
\* of times.
Rearranged(s) == {t \in ScopeStrings : IsTokenList(t) /\ Tokens(t) = Tokens(s)}

\* C30: the result of included(required, allowed) does not change when the
\* tokens of required, or the tokens of allowed, are reordered or repeated;
\* included(r, r) is true for every non-empty r.
C30_OrderAndRepeatsIrrelevant ==
    IncludedEnded =>
        /\ IsTokenList(last.frame.required) =>
              \A t \in Rearranged(last.frame.required) :
                  includedScope(t, last.frame.user.scope) = Included
        /\ IsTokenList(last.frame.user.scope) =>
              \A t \in Rearranged(last.frame.user.scope) :
                  includedScope(last.frame.required, t) = Included
        /\ (last.frame.required # <<>> /\ last.frame.user.scope = last.frame.required) =>
              Included

\* included("a b", "b a") has returned true.
C30_Witness ==
    /\ IncludedEnded
    /\ last.frame.required = <<"a", " ", "b">>
    /\ last.frame.user.scope = <<"b", " ", "a">>
    /\ SUPERUSER_SCOPE = <<>>
    /\ Included

\* C31: when a non-empty superuser scope is configured and is one of the
\* tokens of allowed, included(required, allowed) is true for every required
\* string, so that authorize accepts a retrieved, unexpired access token of
\* that scope whatever scope is required; when no superuser scope is
\* configured nothing is bypassed: a required token that allowed lacks is
\* refused.
C31_SuperuserBypass ==
    IncludedEnded =>
        /\ (SUPERUSER_SCOPE # <<>> /\ SUPERUSER_SCOPE \in Tokens(last.frame.user.scope)) =>
              /\ Included
              /\ AuthorizeOutcome(Ok([expires |-> now, scope |-> last.frame.user.scope,
                                      token |-> <<"access", 1>>, userId |-> ""]),
                                  last.frame.required).status = "returned"
        /\ (/\ SUPERUSER_SCOPE = <<>>
            /\ Tokens(last.frame.required) \ Tokens(last.frame.user.scope) # {}) =>
              ~Included

\* With the superuser scope a configured, included("b", "a") has returned
\* true.
C31_Witness ==
    /\ IncludedEnded
    /\ SUPERUSER_SCOPE = <<"a">>
    /\ last.frame.required = <<"b">>
    /\ last.frame.user.scope = <<"a">>
    /\ Included

\* The handlers a call of the engine awaits, in the order of its awaits.
FlowOrder(op) ==
    CASE op = "password" ->
            <<"authenticateUser", "createAccessToken">>
                \o (IF issueRefreshToken THEN <<"createRefreshToken">> ELSE <<>>)
      [] op = "refresh" ->
            <<"retrieveRefreshToken", "retrieveAccessToken", "createAccessToken">>
                \o (IF issueRefreshToken THEN <<"createRefreshToken">> ELSE <<>>)
                \o <<"revokeAccessToken">>
      [] op = "authorize" -> <<"retrieveAccessToken">>
      [] op = "revoke" -> <<"revokeAccessToken">>
      [] OTHER -> <<>>

\* The log holds the first handlers of the flow in the flow's order, one
\* call each.
InFlowOrder(op, log) ==
    /\ Len(log) <= Len(FlowOrder(op))
    /\ \A i \in 1..Len(log) : log[i].cap = FlowOrder(op)[i]

\* C32: within one call of token(), authorize() or revoke() the handlers are
\* called one after the other in the order of the flow (password:
\* authenticateUser, createAccessToken, createRefreshToken; refresh:
\* retrieveRefreshToken, retrieveAccessToken, createAccessToken,
\* createRefreshToken, revokeAccessToken; createRefreshToken only when refresh
\* tokens are issued), each at most once, and a handler is called only after
\* every earlier one has succeeded: a call in progress has only successful
\* handler calls behind it, and in a call that ended only the last can have
\* failed.
C32_HandlersInSequence ==
    /\ \A p \in Procs :
          /\ InFlowOrder(frame[p].op, calls[p])
          /\ \A i \in 1..Len(calls[p]) : calls[p][i].ok
    /\ CallEnded =>
          /\ InFlowOrder(last.frame.op, last.calls)
          /\ \A i \in 1..(Len(last.calls) - 1) : last.calls[i].ok
          /\ \A cap \in {"authenticateUser", "createAccessToken", "createRefreshToken",
                         "retrieveRefreshToken", "retrieveAccessToken",
                         "revokeAccessToken"} : CallCount(last.calls, cap) <= 1

\* A refresh has returned after its five handler calls.
C32_Witness ==
    /\ RefreshEnded
    /\ last.result.status = "returned"
    /\ Len(last.calls) = 5
    /\ last.calls[4] = Call("createRefreshToken", TRUE)
    /\ last.calls[5] = Call("revokeAccessToken", TRUE)

\* The call of p awaits a createAccessToken that does not complete.
NeverCompletes(p) ==
    /\ ~CanCreate
    /\ \/ pc[p] = "refresh.createAccessToken"
       \/ /\ pc[p] = "password.createAccessToken"
          /\ ~(Truthy(frame[p].scope)
               /\ ~includedScope(frame[p].scope[1], frame[p].user.scope))

\* The handler a suspended call is about to await.
Awaited(at) ==
    CASE at \in {"password.createAccessToken", "refresh.createAccessToken"} ->
            "createAccessToken"
      [] at \in {"password.createRefreshToken", "refresh.createRefreshToken"} ->
            "createRefreshToken"
      [] at = "refresh.retrieveAccessToken" -> "retrieveAccessToken"
      [] at = "refresh.revokeAccessToken" -> "revokeAccessToken"
      [] OTHER -> "none"

\* The call of p moves on only by the completion of the handler it awaits:
\* any other step leaves it as it is.
MovesByCompletion(p) ==
    \/ /\ pc'[p] = pc[p]
       /\ frame'[p] = frame[p]
       /\ calls'[p] = calls[p]
    \/ /\ pc'[p] # pc[p]
       /\ LET log == IF pc'[p] = "idle" THEN last'.calls ELSE calls'[p]
          IN \/ log = calls[p]
             \/ \E ok \in BOOLEAN : log = Append(calls[p], Call(Awaited(pc[p]), ok))
       /\ pc'[p] = "idle" =>
             /\ last'.caller = p
             /\ last'.result.status \in {"returned", "threw"}

C34_ExpiresIsNowPlusLifetime ==
    [][/\ \A t \in DOMAIN accessTokenMap' \ DOMAIN accessTokenMap :
              accessTokenMap'[t].expires = now + (1000 * accessTokenLifetime)
       /\ \A t \in DOMAIN refreshTokenMap' \ DOMAIN refreshTokenMap :
              refreshTokenMap'[t].expires = now + (1000 * refreshTokenLifetime)
       /\ accessTokenLifetime' = accessTokenLifetime
       /\ refreshTokenLifetime' = refreshTokenLifetime
       /\ \E options \in {NoOptions, ShortLifetimes, NoRefreshTokens} :
              Construct(options)]_vars

\* After the clock has advanced to just past the default access token
\* lifetime a refresh has created an access token and a refresh token with
\* the default lifetimes.
C34_Witness ==
    /\ now = (DefaultAccessTokenLifetime * 1000) + 1
    /\ last.frame.op = "refresh"
    /\ last.result.status = "returned"
    /\ last.frame.newAccessToken.expires = now + 86400000
    /\ last.frame.newRefreshToken.expires = now + 604800000
    /\ last.frame.newAccessToken.token \in DOMAIN accessTokenMap

\* C35: authorize(access_token, scope) called with an access token the engine
\* issued and the scope it issued it with succeeds at every time not later
\* than the token's expires, which is its issue time plus accessTokenLifetime,
\* as long as the token is in the store and the store does not fail, and
\* fails with InvalidTokenError at every later time.
C35_IssuedTokenAuthorizesUntilExpiry ==
    /\ \A t \in DOMAIN accessTokenMap :
          LET token == accessTokenMap[t]
              outcome == AuthorizeOutcome(Ok(token), token.scope)
          IN IF now <= token.expires THEN outcome.status = "returned"
             ELSE /\ outcome.status = "threw"
                  /\ outcome.error.kind = "InvalidTokenError"
    /\ (/\ AuthorizeEnded
        /\ last.frame.token \in DOMAIN accessTokenMap
        /\ last.frame.required = accessTokenMap[last.frame.token].scope) =>
          IF now <= accessTokenMap[last.frame.token].expires
          THEN ~StoreFailed(last.frame) => last.result.status = "returned"
          ELSE /\ last.result.status = "threw"
               /\ last.result.error.kind = "InvalidTokenError"

\* authorize has returned for an access token and its scope at the very time
\* the token expires, one access token lifetime after it was issued.
C35_Witness ==
    /\ AuthorizeEnded
    /\ last.result.status = "returned"
    /\ last.frame.token \in DOMAIN accessTokenMap
    /\ last.frame.required = accessTokenMap[last.frame.token].scope
    /\ accessTokenMap[last.frame.token].expires = now
    /\ now = accessTokenLifetime * 1000

\* The permissions of the token are permissions of the user it carries.
WithinUserScope(token) ==
    Tokens(token.scope) \subseteq Tokens(credentialMap[token.userId].scope)

\* C36: with no superuser scope configured, whatever password grants,
\* refreshes and revocations have taken place, every access token the engine
\* has created (stored, or just created by a call in progress or by the call
\* that ended) has a scope whose tokens all appear in the scope of the user
\* whose userId it carries.
C36_NoPermissionBeyondUser ==
    SUPERUSER_SCOPE = <<>> =>
        /\ \A t \in DOMAIN accessTokenMap : WithinUserScope(accessTokenMap[t])
        /\ \A p \in Procs :
              frame[p].newAccessToken # NoAccessToken =>
                  WithinUserScope(frame[p].newAccessToken)
        /\ last.frame.newAccessToken # NoAccessToken =>
              WithinUserScope(last.frame.newAccessToken)

\* A refresh has returned a token of fred with the one permission f, fewer
\* than fred holds.
C36_Witness ==
    /\ SUPERUSER_SCOPE = <<>>
    /\ RefreshEnded
    /\ last.result.status = "returned"
    /\ last.frame.newAccessToken.userId = "fred"
    /\ last.frame.newAccessToken.scope = <<"f">>
    /\ last.frame.newAccessToken.token \in DOMAIN accessTokenMap

\* The refresh of q is in progress for the refresh token r.
Refreshing(q, r) ==
    /\ pc[q] # "idle"
    /\ frame[q].op = "refresh"
    /\ frame[q].token = r

\* The refresh of q is in progress and the access token of its refresh token
\* is no longer stored.
Superseded(q) ==
    /\ pc[q] # "idle"
    /\ frame[q].op = "refresh"
    /\ frame[q].oldRefreshToken.accessToken \notin DOMAIN accessTokenMap

\* The call that ended failed with InvalidTokenError at the handler cap.
FailedAt(l, cap) ==
    /\ l.result.status = "threw"
    /\ l.result.error.kind = "InvalidTokenError"
    /\ Len(l.calls) >= 1
    /\ l.calls[Len(l.calls)] = Call(cap, FALSE)

\* C37: of two refresh flows that run concurrently for the same refresh
\* token, against the store whose revokeAccessToken fails for a token that is
\* gone, at most one returns a response: when one returns, the access token
\* of the other is gone, and a refresh in that position calls on, stays in
\* it, and ends with InvalidTokenError at its retrieveAccessToken or at its
\* final revokeAccessToken.
C37_OneOfTwoRefreshesReturns ==
    [][\A p, q \in Procs :
          /\ (/\ p # q
              /\ Refreshing(p, frame[q].token)
              /\ Refreshing(q, frame[p].token)
              /\ pc'[p] = "idle"
              /\ last'.result.status = "returned") =>
                 Superseded(q)'
          /\ Superseded(q) =>
                 \/ Superseded(q)'
                 \/ /\ pc'[q] = "idle"
                    /\ last'.caller = q
                    /\ \/ FailedAt(last', "retrieveAccessToken")
                       \/ FailedAt(last', "revokeAccessToken")]_vars

\* One of two refreshes of the same refresh token has failed at its final
\* revokeAccessToken, having created its tokens, after the other returned.
C37_Witness ==
    /\ RefreshEnded
    /\ last.frame.token = <<"refresh", 1>>
    /\ FailedAt(last, "revokeAccessToken")
    /\ last.frame.newAccessToken.token \in DOMAIN accessTokenMap
    /\ Cardinality(DOMAIN accessTokenMap) = 2

\* The tokens the refresh of frame f created are stored, the refresh token
\* (when one is issued) referencing the access token, and the access token
\* is accepted by authorize for its own scope.
NewTokensUsable(f) ==
    /\ f.newAccessToken.token \in DOMAIN accessTokenMap
    /\ accessTokenMap[f.newAccessToken.token].userId = f.oldAccessToken.userId
    /\ issueRefreshToken =>
          /\ f.newRefreshToken.token \in DOMAIN refreshTokenMap
          /\ refreshTokenMap[f.newRefreshToken.token].accessToken = f.newAccessToken.token
          /\ refreshTokenMap[f.newRefreshToken.token].userId = f.oldAccessToken.userId
    /\ AuthorizeOutcome(retrieveAccessToken(f.newAccessToken.token),
                        f.newAccessToken.scope).status = "returned"

\* C38: when revoke(t) completes while a refresh that uses the refresh token
\* of t has retrieved t and not yet called createAccessToken, the refresh
\* goes on: it creates a new access token (and refresh token) for the user of
\* t, fails with InvalidTokenError at its own revokeAccessToken, and leaves
\* the store as it is: the new tokens, unless another call has revoked them
\* meanwhile, are stored and the access token passes authorize.
C38_RevokedDuringRefresh ==
    [][\A q \in Procs :
          /\ (/\ pc[q] = "refresh.createAccessToken"
              /\ last'.frame.op = "revoke"
              /\ last'.frame.token = frame[q].oldAccessToken.token
              /\ last'.result.status = "returned") =>
                 /\ Superseded(q)'
                 /\ pc'[q] = "refresh.createAccessToken"
          /\ (/\ Superseded(q)
              /\ pc[q] = "refresh.createAccessToken"
              /\ pc'[q] # pc[q]) =>
                 /\ pc'[q] # "idle"
                 /\ frame'[q].newAccessToken.token \in
                        DOMAIN accessTokenMap' \ DOMAIN accessTokenMap
                 /\ frame'[q].newAccessToken.userId = frame[q].oldAccessToken.userId
          /\ (/\ Superseded(q)
              /\ pc[q] = "refresh.createRefreshToken"
              /\ pc'[q] # pc[q]) =>
                 /\ pc'[q] = "refresh.revokeAccessToken"
                 /\ frame'[q].newRefreshToken.token \in
                        DOMAIN refreshTokenMap' \ DOMAIN refreshTokenMap
          /\ (/\ Superseded(q)
              /\ pc[q] = "refresh.revokeAccessToken"
              /\ pc'[q] # pc[q]) =>
                 /\ FailedAt(last', "revokeAccessToken")
                 /\ accessTokenMap' = accessTokenMap
                 /\ refreshTokenMap' = refreshTokenMap
                 /\ frame[q].newAccessToken.token \in DOMAIN accessTokenMap =>
                        NewTokensUsable(last.frame)'
                 /\ last'.frame.token \notin DOMAIN refreshTokenMap']_vars

\* A refresh has failed at its revokeAccessToken after a revoke removed its
\* old access token: the one access token stored is the one it created.
C38_Witness ==
    /\ RefreshEnded
    /\ FailedAt(last, "revokeAccessToken")
    /\ last.frame.oldAccessToken.token = <<"access", 1>>
    /\ DOMAIN accessTokenMap = {<<"access", 2>>}
    /\ nextAccessTokenId = 2
    /\ NewTokensUsable(last.frame)

\* The flow of the call that ended stopped at a createRefreshToken that
\* failed.
CreateRefreshTokenFailed ==
    /\ last.frame.op \in {"password", "refresh"}
    /\ Len(last.calls) >= 1
    /\ last.calls[Len(last.calls)] = Call("createRefreshToken", FALSE)

\* C39: when createRefreshToken fails, in the password flow or in the refresh
\* flow, token() throws InvalidTokenError and returns no response; the access
\* token created one step earlier is still in the store, with no refresh
\* token referencing it; in the refresh flow the old access token and the old
\* refresh token are still in the store too.
C39_CreateRefreshTokenFailureLeavesAccessToken ==
    CreateRefreshTokenFailed =>
        /\ last.result.status = "threw"
        /\ last.result.error.kind = "InvalidTokenError"
        /\ last.result.response = NoResponse
        /\ last.calls[Len(last.calls) - 1] = Call("createAccessToken", TRUE)
        /\ last.frame.newAccessToken.token \in DOMAIN accessTokenMap
        /\ accessTokenMap[last.frame.newAccessToken.token] = last.frame.newAccessToken
        /\ \A r \in DOMAIN refreshTokenMap :
               refreshTokenMap[r].accessToken # last.frame.newAccessToken.token
        /\ last.frame.op = "refresh" =>
              /\ last.frame.oldAccessToken.token \in DOMAIN accessTokenMap
              /\ last.frame.token \in DOMAIN refreshTokenMap
              /\ refreshTokenMap[last.frame.token] = last.frame.oldRefreshToken

\* A refresh has failed at createRefreshToken: the store holds the old and
\* the new access token and the old refresh token only.
C39_Witness ==
    /\ CreateRefreshTokenFailed
    /\ last.frame.op = "refresh"
    /\ Cardinality(DOMAIN accessTokenMap) = 2
    /\ DOMAIN refreshTokenMap = {last.frame.token}

\* The string s occurs in the string t.
OccursIn(s, t) ==
    \E i \in 1..(Len(t) - Len(s) + 1) : SubSeq(t, i, i + Len(s) - 1) = s

\* C40: the superuser test of the scope matcher is a substring test on the
\* whole allowed string: when the configured superuser scope is not a token
\* of allowed but occurs inside a longer token of it, included(required,
\* allowed) is true for every required all the same.
C40_SuperuserIsSubstringTest ==
    (/\ IncludedEnded
     /\ SUPERUSER_SCOPE # <<>>
     /\ SUPERUSER_SCOPE \notin Tokens(last.frame.user.scope)
     /\ \E t \in Tokens(last.frame.user.scope) : OccursIn(SUPERUSER_SCOPE, t)) =>
        Included

\* With the superuser scope a configured, included("b", "ab") has returned
\* true.
C40_Witness ==
    /\ IncludedEnded
    /\ SUPERUSER_SCOPE = <<"a">>
    /\ last.frame.required = <<"b">>
    /\ last.frame.user.scope = <<"a", "b">>
    /\ Included

====
